---- MODULE Spec2Model ----
(***************************************************************************)
(* OVC ArcGIS Pro: the spatial grid index, the pairwise overlap engine,    *)
(* the building/road buffer conflict engine and the road topology engine.  *)
(*                                                                         *)
(* Numbers.  Map coordinates, areas and lengths are integers (map units).  *)
(* A quantity the code obtains by a float division (cell size, overlap     *)
(* ratio, threshold) is kept as an exact fraction <<num, den>>, den > 0,   *)
(* and compared by cross multiplication; float rounding is not modelled.   *)
(*                                                                         *)
(* Geometry provider (arcpy).  A geometry handle is a record               *)
(*   [type, blocks, extent_raises, op_raises].                             *)
(* A polygon covers the square blocks of side BlockSize named by `blocks`; *)
(* a polyline runs along the lower edge of its blocks.  type "None" is     *)
(* Python's None.  extent_raises: reading .extent raises; op_raises:       *)
(* .intersect/.buffer raise when this geometry takes part.                 *)
(***************************************************************************)
EXTENDS Integers, Sequences, FiniteSets, TLC

\* ---------------------------------------------------------------- bounds
BlockSize == 8
MaxFeatures == 2
MaxInserts == 3
MaxVerts == 5
MaxCoord == 1
MaxTol == 1
RatioSteps == 10

\* ------------------------------------------------------ program constants
\* 1e-9 = 1 / EpsDen
EpsDen == 1000000000

\* ------------------------------------------------------------- arithmetic
Min2(a, b) == IF a <= b THEN a ELSE b
Max2(a, b) == IF a >= b THEN a ELSE b
SetMin(S) == CHOOSE m \in S : \A n \in S : m <= n
SetMax(S) == CHOOSE m \in S : \A n \in S : m >= n

\* fractions <<num, den>> with den > 0
FracGE(f, g) == f[1] * g[2] >= g[1] * f[2]
FracLT(f, g) == f[1] * g[2] < g[1] * f[2]
FracEQ(f, g) == f[1] * g[2] = g[1] * f[2]

\* int(x // cell) for a positive cell size cell = <<num, den>>
FloorDiv(x, cell) == (x * cell[2]) \div cell[1]

\* ------------------------------------------------------ geometry provider
NoExtent == <<>>

Geom(t, b) == [type |-> t, blocks |-> b, extent_raises |-> FALSE, op_raises |-> FALSE]
NoneGeom == Geom("None", {})

\* geometry.pointCount
PointCount(g) == Cardinality(g.blocks)
\* geometry.area: a polyline has area 0
Area(g) == IF g.type = "polygon" THEN Cardinality(g.blocks) * BlockSize * BlockSize ELSE 0
\* geometry.length
Length(g) == IF g.type = "polyline" THEN Cardinality(g.blocks) * BlockSize
             ELSE 4 * Cardinality(g.blocks) * BlockSize
\* geometry.extent of a geometry with points
Extent(g) ==
    LET xs == {b[1] : b \in g.blocks}
        ys == {b[2] : b \in g.blocks}
    IN  IF g.type = "polygon"
        THEN << BlockSize * SetMin(xs), BlockSize * SetMin(ys),
                BlockSize * (SetMax(xs) + 1), BlockSize * (SetMax(ys) + 1) >>
        ELSE << BlockSize * SetMin(xs), BlockSize * SetMin(ys),
                BlockSize * (SetMax(xs) + 1), BlockSize * SetMax(ys) >>
\* geom_a.intersect(geom_b, 4): the polygon part of the intersection
\* (empty when either operand is a polyline)
Intersect(a, b) ==
    IF a.type = "polygon" /\ b.type = "polygon"
    THEN Geom("polygon", a.blocks \cap b.blocks)
    ELSE Geom("polygon", {})
\* geometry.buffer(k * BlockSize), k > 0, with square caps
Buffer(g, k) ==
    Geom("polygon",
         UNION { IF g.type = "polygon"
                 THEN (b[1] - k .. b[1] + k) \X (b[2] - k .. b[2] + k)
                 ELSE (b[1] - k .. b[1] + k) \X (b[2] - k .. b[2] + k - 1)
                 : b \in g.blocks })

\* ------------------------------------------------------ core/geometry.py
is_geometry_null(g) ==
    \/ g.type = "None"
    \/ PointCount(g) = 0
    \/ g.type = "polygon" /\ Area(g) = 0
    \/ g.type = "polyline" /\ Length(g) = 0

get_geometry_area(g) == IF is_geometry_null(g) THEN 0 ELSE Area(g)

get_geometry_extent(g) ==
    IF is_geometry_null(g) THEN NoExtent
    ELSE IF g.extent_raises THEN NoExtent
    ELSE Extent(g)

validate_polygon_geometry(g) ==
    /\ ~is_geometry_null(g)
    /\ g.type = "polygon"
    /\ get_geometry_area(g) > 0

validate_line_geometry(g) ==
    /\ ~is_geometry_null(g)
    /\ g.type = "polyline"
    /\ Length(g) > 0

\* an intersection handed on without the tests for an empty result
get_intersection_geometry_unchecked(a, b) ==
    IF a.type = "None" \/ b.type = "None" THEN NoneGeom
    ELSE IF a.op_raises \/ b.op_raises THEN NoneGeom
    ELSE Intersect(a, b)

\* None is modelled by NoneGeom
get_intersection_geometry(a, b) ==
    IF a.type = "None" \/ b.type = "None" THEN NoneGeom
    ELSE IF is_geometry_null(a) \/ is_geometry_null(b) THEN NoneGeom
    ELSE IF a.op_raises \/ b.op_raises THEN NoneGeom
    ELSE IF is_geometry_null(Intersect(a, b)) THEN NoneGeom
    ELSE IF get_geometry_area(Intersect(a, b)) <= 0 THEN NoneGeom
    ELSE Intersect(a, b)

\* a buffer that hands every distance to the provider
buffer_geometry_always(g, k) ==
    IF is_geometry_null(g) THEN NoneGeom
    ELSE IF g.op_raises THEN NoneGeom
    ELSE Buffer(g, k)

\* distance = k * BlockSize
buffer_geometry(g, k) ==
    IF is_geometry_null(g) THEN NoneGeom
    ELSE IF k <= 0 THEN g
    ELSE IF g.op_raises THEN NoneGeom
    ELSE Buffer(g, k)

\* --------------------------------------------------- core/spatial_ops.py
\* SpatialIndex.__init__
SpatialIndex(cs) ==
    [cell_size |-> cs, grid |-> << >>, geometries |-> << >>, extents |-> << >>]

\* only the cell of the lower left corner
CellsOf_corner(cs, extent) ==
    {<< FloorDiv(extent[1], cs), FloorDiv(extent[2], cs) >>}

\* the cells (col, row) an extent spans
CellsOf(cs, extent) ==
    (FloorDiv(extent[1], cs) .. FloorDiv(extent[3], cs))
        \X (FloorDiv(extent[2], cs) .. FloorDiv(extent[4], cs))

DictPut(d, k, v) == [x \in DOMAIN d \cup {k} |-> IF x = k THEN v ELSE d[x]]

\* an insert that stores the geometry before it asks for the extent
insert_early(ix, fid, geometry) ==
    IF is_geometry_null(geometry) THEN ix
    ELSE IF get_geometry_extent(geometry) = NoExtent
         THEN [ix EXCEPT !.geometries = DictPut(ix.geometries, fid, geometry)]
    ELSE LET extent == get_geometry_extent(geometry)
             cells == CellsOf(ix.cell_size, extent)
         IN [ix EXCEPT
               !.geometries = DictPut(ix.geometries, fid, geometry),
               !.extents = DictPut(ix.extents, fid, extent),
               !.grid = [key \in DOMAIN ix.grid \cup cells |->
                           IF key \in cells
                           THEN IF key \in DOMAIN ix.grid
                                THEN Append(ix.grid[key], fid)
                                ELSE << fid >>
                           ELSE ix.grid[key]]]

\* an insert that leaves the grid alone when the id is already indexed
insert_once(ix, fid, geometry) ==
    IF is_geometry_null(geometry) THEN ix
    ELSE IF get_geometry_extent(geometry) = NoExtent THEN ix
    ELSE LET extent == get_geometry_extent(geometry)
             cells == IF fid \in DOMAIN ix.extents THEN {}
                      ELSE CellsOf(ix.cell_size, extent)
         IN [ix EXCEPT
               !.geometries = DictPut(ix.geometries, fid, geometry),
               !.extents = DictPut(ix.extents, fid, extent),
               !.grid = [key \in DOMAIN ix.grid \cup cells |->
                           IF key \in cells
                           THEN IF key \in DOMAIN ix.grid
                                THEN Append(ix.grid[key], fid)
                                ELSE << fid >>
                           ELSE ix.grid[key]]]

\* SpatialIndex.insert
insert(ix, fid, geometry) ==
    IF is_geometry_null(geometry) THEN ix
    ELSE IF get_geometry_extent(geometry) = NoExtent THEN ix
    ELSE LET extent == get_geometry_extent(geometry)
             cells == CellsOf(ix.cell_size, extent)
         IN [ix EXCEPT
               !.geometries = DictPut(ix.geometries, fid, geometry),
               !.extents = DictPut(ix.extents, fid, extent),
               !.grid = [key \in DOMAIN ix.grid \cup cells |->
                           IF key \in cells
                           THEN IF key \in DOMAIN ix.grid
                                THEN Append(ix.grid[key], fid)
                                ELSE << fid >>
                           ELSE ix.grid[key]]]

SeqRange(s) == {s[i] : i \in 1..Len(s)}

\* a query that looks only into the cell of the lower left corner
query_by_extent_corner(ix, extent) ==
    UNION {SeqRange(ix.grid[key]) :
             key \in {<< FloorDiv(extent[1], ix.cell_size),
                         FloorDiv(extent[2], ix.cell_size) >>} \cap DOMAIN ix.grid}

\* a query that takes only the first id of every cell
query_by_extent_first(ix, extent) ==
    {ix.grid[key][1] : key \in CellsOf(ix.cell_size, extent) \cap DOMAIN ix.grid}

\* SpatialIndex.query_by_extent: the ids of list(candidates), a list without
\* repeats in an order the set decides
query_by_extent(ix, extent) ==
    UNION {SeqRange(ix.grid[key]) : key \in CellsOf(ix.cell_size, extent) \cap DOMAIN ix.grid}

\* a query that leaves the queried id among the candidates
query_candidates_self(ix, fid) ==
    IF fid \notin DOMAIN ix.extents THEN {}
    ELSE query_by_extent(ix, ix.extents[fid])

\* SpatialIndex.query_candidates
query_candidates(ix, fid) ==
    IF fid \notin DOMAIN ix.extents THEN {}
    ELSE query_by_extent(ix, ix.extents[fid]) \ {fid}

extents_intersect(extent_a, extent_b) ==
    ~ \/ extent_a[3] < extent_b[1]
      \/ extent_a[1] > extent_b[3]
      \/ extent_a[4] < extent_b[2]
      \/ extent_a[2] > extent_b[4]

\* a classifier whose duplicate class leaves out the threshold itself
classify_overlap_strict(overlap_ratio, duplicate_threshold, partial_threshold) ==
    IF ~FracGE(duplicate_threshold, overlap_ratio) THEN "DUPLICATE"
    ELSE IF FracGE(overlap_ratio, partial_threshold) THEN "PARTIAL"
    ELSE "SLIVER"
\* a classifier whose comparison with the partial threshold is turned round
classify_overlap_inverted(overlap_ratio, duplicate_threshold, partial_threshold) ==
    IF FracGE(overlap_ratio, duplicate_threshold) THEN "DUPLICATE"
    ELSE IF FracGE(partial_threshold, overlap_ratio) THEN "PARTIAL"
    ELSE "SLIVER"


classify_overlap(overlap_ratio, duplicate_threshold, partial_threshold) ==
    IF FracGE(overlap_ratio, duplicate_threshold) THEN "DUPLICATE"
    ELSE IF FracGE(overlap_ratio, partial_threshold) THEN "PARTIAL"
    ELSE "SLIVER"

FracMax(f, g) == IF FracGE(f, g) THEN f ELSE g

OverlapResult(fid_a, fid_b, overlap_geometry, overlap_area, overlap_ratio, overlap_type) ==
    [fid_a |-> fid_a, fid_b |-> fid_b, overlap_geometry |-> overlap_geometry,
     overlap_area |-> overlap_area, overlap_ratio |-> overlap_ratio,
     overlap_type |-> overlap_type]

\* ------------------------------------------------------------------ state
VARIABLES
    impl,                \* "find_pairwise_overlaps" or "_find_overlaps"
    features,            \* the input mapping, in insertion order: <<[fid, geom], ...>>
    min_overlap_area,
    duplicate_threshold,
    partial_threshold,
    pc,                  \* position in the running function
    sindex,              \* the SpatialIndex
    extents,             \* the engine's own dict fid -> extent
    ins,                 \* position of the insert loop
    idx,                 \* position of the outer loop
    candidates,          \* candidates not yet visited by the inner loop
    processed_pairs,
    results,             \* records emitted so far, in order
    calls,               \* <<a, b>> for every geom_a.intersect(geom_b) attempted
    query,               \* the last call made on the index directly, NoQuery if none
    roads,               \* _find_conflicts: the road mapping, in insertion order
    buffer_distance,     \* in blocks: the distance is buffer_distance * BlockSize
    buffered_roads,      \* <<[fid, geom, extent], ...>>, in insertion order
    conflicts,           \* ConflictResult records, in order
    endpoints_by_road,   \* find_dangles: <<[fid, pts], ...>>, in insertion order
    tolerance,
    dangles,             \* the list find_dangles returns
    disconnected,        \* the list of ids find_disconnected returns
    vertices_by_road,    \* find_self_intersections: <<[fid, parts], ...>>
    self_intersections,  \* the list find_self_intersections returns
    ratio,               \* classify_overlap: the overlap_ratio argument
    classification       \* classify_overlap: the value returned

vars == << impl, features, min_overlap_area, duplicate_threshold, partial_threshold,
           pc, sindex, extents, ins, idx, candidates, processed_pairs, results, calls,
           query, roads, buffer_distance, buffered_roads, conflicts,
           endpoints_by_road, tolerance, dangles, disconnected,
           vertices_by_road, self_intersections, ratio, classification >>

conflictVars == << roads, buffer_distance, buffered_roads, conflicts >>
roadVars == << endpoints_by_road, tolerance, dangles, disconnected,
               vertices_by_road, self_intersections >>
classVars == << ratio, classification >>
\* what find_pairwise_overlaps does not touch
others == << query, conflictVars, roadVars, classVars >>

NoQuery == << >>

inputs == << impl, features, min_overlap_area, duplicate_threshold, partial_threshold >>

\* ----------------------------------------------------------------- inputs
Fids == 1..MaxFeatures

PolyA == Geom("polygon", {<<-1, 0>>, <<0, 0>>})
PolyB == Geom("polygon", {<<0, 0>>})
PolyD == Geom("polygon", {<<-1, 0>>, <<-1, 1>>, <<0, 1>>})
PolyE == Geom("polygon", {<<0, 1>>, <<1, 1>>, <<1, 0>>})
LineL == Geom("polyline", {<<-1, 0>>, <<0, 0>>})
NoExtentPoly == [PolyB EXCEPT !.extent_raises = TRUE]
RaisingPoly == [PolyA EXCEPT !.op_raises = TRUE]

OverlapGeoms == {NoneGeom, LineL, NoExtentPoly, RaisingPoly, PolyA, PolyB, PolyD, PolyE}

MinAreas == {-1, 0, BlockSize * BlockSize + 1}

InjSeqs(S, n) == {s \in [1..n -> S] : \A i, j \in 1..n : s[i] = s[j] => i = j}

FeatureMaps(lib) ==
    UNION { { [i \in 1..n |-> [fid |-> ord[i], geom |-> gs[i]]] :
                ord \in InjSeqs(Fids, n), gs \in [1..n -> lib] } : n \in 0..MaxFeatures }

features_get(fid) == features[CHOOSE i \in 1..Len(features) : features[i].fid = fid].geom

\* the variables of an engine that is not running
InitConflictIdle ==
    /\ roads = << >>
    /\ buffer_distance = 0
    /\ buffered_roads = << >>
    /\ conflicts = << >>

InitRoadIdle ==
    /\ endpoints_by_road = << >>
    /\ tolerance = 0
    /\ dangles = << >>
    /\ disconnected = << >>
    /\ vertices_by_road = << >>
    /\ self_intersections = << >>

InitClassIdle ==
    /\ ratio = <<0, 1>>
    /\ classification = ""

InitOverlapIdle ==
    /\ impl = ""
    /\ features = << >>
    /\ min_overlap_area = 0
    /\ duplicate_threshold = <<9, 10>>
    /\ partial_threshold = <<5, 10>>
    /\ extents = << >>
    /\ ins = 1
    /\ idx = 1
    /\ candidates = {}
    /\ processed_pairs = {}
    /\ results = << >>
    /\ calls = << >>

InitOverlap ==
    /\ impl \in {"find_pairwise_overlaps", "_find_overlaps"}
    /\ features \in FeatureMaps(OverlapGeoms)
    /\ min_overlap_area \in MinAreas
    /\ duplicate_threshold = <<9, 10>>
    /\ partial_threshold = <<5, 10>>
    /\ pc = "start"
    /\ sindex = SpatialIndex(<<100, 1>>)
    /\ extents = << >>
    /\ ins = 1
    /\ idx = 1
    /\ candidates = {}
    /\ processed_pairs = {}
    /\ results = << >>
    /\ calls = << >>
    /\ query = NoQuery
    /\ InitConflictIdle
    /\ InitRoadIdle
    /\ InitClassIdle

\* ------------------------------------------- find_pairwise_overlaps, setup
\* the dict fid -> extent of the features whose extent can be computed
ComputeExtents(fs) ==
    LET have == {i \in 1..Len(fs) : get_geometry_extent(fs[i].geom) # NoExtent}
    IN  [fid \in {fs[i].fid : i \in have} |->
            get_geometry_extent(fs[CHOOSE i \in have : fs[i].fid = fid].geom)]

RECURSIVE SumOver(_, _, _)
SumOver(d, S, k) ==
    IF S = {} THEN 0
    ELSE LET x == CHOOSE y \in S : TRUE
         IN (d[x][k + 2] - d[x][k]) + SumOver(d, S \ {x}, k)

\* avg_size = max((total_width + total_height) / (2 * len(extents)), 10.0)
\* cell_size = avg_size * 2
OverlapCellSize(ext) ==
    LET total_width == SumOver(ext, DOMAIN ext, 1)
        total_height == SumOver(ext, DOMAIN ext, 2)
        avg_size == FracMax(<<total_width + total_height, 2 * Cardinality(DOMAIN ext)>>,
                            <<10, 1>>)
    IN  <<avg_size[1] * 2, avg_size[2]>>

\* a _find_overlaps that gives up below three features
Begin_three ==
    /\ pc = "start"
    /\ LET ext == ComputeExtents(features)
       IN  IF \/ impl = "find_pairwise_overlaps" /\ Len(features) = 0
              \/ impl = "_find_overlaps" /\ Len(features) < 3
              \/ DOMAIN ext = {}
           THEN /\ pc' = "done"
                /\ UNCHANGED << sindex, extents >>
           ELSE /\ pc' = "insert"
                /\ extents' = ext
                /\ sindex' = SpatialIndex(OverlapCellSize(ext))
    /\ UNCHANGED << inputs, ins, idx, candidates, processed_pairs, results, calls, others >>

\* lines 215-237 (find_pairwise_overlaps) and 297-318 (_find_overlaps)
Begin ==
    /\ pc = "start"
    /\ LET ext == ComputeExtents(features)
       IN  IF \/ impl = "find_pairwise_overlaps" /\ Len(features) = 0
              \/ impl = "_find_overlaps" /\ Len(features) < 2
              \/ DOMAIN ext = {}
           THEN /\ pc' = "done"
                /\ UNCHANGED << sindex, extents >>
           ELSE /\ pc' = "insert"
                /\ extents' = ext
                /\ sindex' = SpatialIndex(OverlapCellSize(ext))
    /\ UNCHANGED << inputs, ins, idx, candidates, processed_pairs, results, calls, others >>

\* one round of "for fid, geom in features.items(): sindex.insert(fid, geom)"
InsertFeature ==
    /\ pc = "insert"
    /\ sindex' = insert(sindex, features[ins].fid, features[ins].geom)
    /\ IF ins = Len(features)
       THEN pc' = "outer" /\ ins' = ins
       ELSE pc' = pc /\ ins' = ins + 1
    /\ UNCHANGED << inputs, extents, idx, candidates, processed_pairs, results, calls, others >>

\* ---------------------------------------- find_pairwise_overlaps, the loops
fid_a == features[idx].fid
geom_a == features[idx].geom

\* lines 250-260: does the outer feature reach the candidate query?
OuterValid ==
    /\ validate_polygon_geometry(geom_a)
    /\ get_geometry_area(geom_a) > 0
    /\ fid_a \in DOMAIN extents

\* the end of one round of the outer loop
NextOuter ==
    IF idx = Len(features)
    THEN pc' = "finish" /\ idx' = idx
    ELSE pc' = "outer" /\ idx' = idx + 1

\* an outer loop that ends at the first feature it cannot use
Outer_break ==
    /\ pc = "outer"
    /\ IF OuterValid
       THEN IF query_candidates(sindex, fid_a) # {}
            THEN /\ candidates' = query_candidates(sindex, fid_a)
                 /\ pc' = "inner"
                 /\ idx' = idx
            ELSE /\ candidates' = {}
                 /\ NextOuter
       ELSE /\ candidates' = {}
            /\ pc' = "finish"
            /\ idx' = idx
    /\ UNCHANGED << inputs, sindex, extents, ins, processed_pairs, results, calls, others >>

\* lines 246-263: one round of the outer loop up to the candidate query
Outer ==
    /\ pc = "outer"
    /\ IF OuterValid /\ query_candidates(sindex, fid_a) # {}
       THEN /\ candidates' = query_candidates(sindex, fid_a)
            /\ pc' = "inner"
            /\ idx' = idx
       ELSE /\ candidates' = {}
            /\ NextOuter
    /\ UNCHANGED << inputs, sindex, extents, ins, processed_pairs, results, calls, others >>

\* a pair key that keeps the order of its arguments
pair_key_unordered(a, b) == << a, b >>

pair_key(a, b) == << Min2(a, b), Max2(a, b) >>

\* candidate checks without the extent-vs-extent test
PairReachesIntersection_noextent(fid_b) ==
    /\ validate_polygon_geometry(features_get(fid_b))
    /\ get_geometry_area(features_get(fid_b)) > 0
    /\ fid_b \in DOMAIN extents

\* lines 272-286: is the pair handed to the geometric intersection?
PairReachesIntersection(fid_b) ==
    /\ validate_polygon_geometry(features_get(fid_b))
    /\ get_geometry_area(features_get(fid_b)) > 0
    /\ fid_b \in DOMAIN extents
    /\ extents_intersect(extents[fid_a], extents[fid_b])

\* a ratio taken over the larger of the two areas
PairRecord_larger(a, b, min_area) ==
    LET ga == features_get(a)
        gb == features_get(b)
        intersection == get_intersection_geometry(ga, gb)
        overlap_area == get_geometry_area(intersection)
        larger == Max2(get_geometry_area(ga), get_geometry_area(gb))
        overlap_ratio == IF larger > 0 THEN <<overlap_area, larger>> ELSE <<0, 1>>
    IN  IF intersection = NoneGeom THEN {}
        ELSE IF overlap_area < min_area THEN {}
        ELSE {OverlapResult(a, b, intersection, overlap_area, overlap_ratio,
                            classify_overlap(overlap_ratio, duplicate_threshold,
                                             partial_threshold))}

\* lines 288-314: the record the pair yields, as a set of zero or one record
PairRecord(a, b, min_area) ==
    LET ga == features_get(a)
        gb == features_get(b)
        intersection == get_intersection_geometry(ga, gb)
        overlap_area == get_geometry_area(intersection)
        smaller == Min2(get_geometry_area(ga), get_geometry_area(gb))
        overlap_ratio == IF smaller > 0 THEN <<overlap_area, smaller>> ELSE <<0, 1>>
    IN  IF intersection = NoneGeom THEN {}
        ELSE IF overlap_area < min_area THEN {}
        ELSE {OverlapResult(a, b, intersection, overlap_area, overlap_ratio,
                            classify_overlap(overlap_ratio, duplicate_threshold,
                                             partial_threshold))}

\* an inner loop that looks at one candidate only, the first the list hands over
Inner_firstonly ==
    /\ pc = "inner"
    /\ \E fid_b \in candidates :
        /\ candidates' = {}
        /\ IF pair_key(fid_a, fid_b) \in processed_pairs
           THEN UNCHANGED << processed_pairs, results, calls >>
           ELSE /\ processed_pairs' = processed_pairs \cup {pair_key(fid_a, fid_b)}
                /\ IF PairReachesIntersection(fid_b)
                   THEN /\ calls' = Append(calls, <<fid_a, fid_b>>)
                        /\ LET rec == PairRecord(fid_a, fid_b, min_overlap_area)
                           IN  results' = IF rec = {} THEN results
                                          ELSE Append(results, CHOOSE r \in rec : TRUE)
                   ELSE UNCHANGED << results, calls >>
        /\ NextOuter
    /\ UNCHANGED << inputs, sindex, extents, ins, others >>

\* lines 265-314: one round of the inner loop; list(set) hands the candidates
\* over in an order the program does not control
Inner ==
    /\ pc = "inner"
    /\ \E fid_b \in candidates :
        /\ candidates' = candidates \ {fid_b}
        /\ IF pair_key(fid_a, fid_b) \in processed_pairs
           THEN UNCHANGED << processed_pairs, results, calls >>
           ELSE /\ processed_pairs' = processed_pairs \cup {pair_key(fid_a, fid_b)}
                /\ IF PairReachesIntersection(fid_b)
                   THEN /\ calls' = Append(calls, <<fid_a, fid_b>>)
                        /\ LET rec == PairRecord(fid_a, fid_b, min_overlap_area)
                           IN  results' = IF rec = {} THEN results
                                          ELSE Append(results, CHOOSE r \in rec : TRUE)
                   ELSE UNCHANGED << results, calls >>
        /\ IF candidates' = {}
           THEN NextOuter
           ELSE pc' = pc /\ idx' = idx
    /\ UNCHANGED << inputs, sindex, extents, ins, others >>

\* the generator is exhausted / _find_overlaps returns results
Finish ==
    /\ pc = "finish"
    /\ pc' = "done"
    /\ UNCHANGED << inputs, sindex, extents, ins, idx, candidates, processed_pairs,
                    results, calls, others >>

NextOverlap == Begin \/ InsertFeature \/ Outer \/ Inner \/ Finish

SpecOverlap == InitOverlap /\ [][NextOverlap]_vars

\* ------------------------------------------------------- overlap properties
Records == SeqRange(results)
Finished == pc = "done"

\* the grid cells that hold both ids
SharedCells(a, b) ==
    {key \in DOMAIN sindex.grid : {a, b} \subseteq SeqRange(sindex.grid[key])}

\* C1: no two emitted records have the same unordered id pair {fid_a, fid_b},
\* however many grid cells the two features share.
C1_UniquePairs ==
    \A i, j \in 1..Len(results) :
        {results[i].fid_a, results[i].fid_b} = {results[j].fid_a, results[j].fid_b}
            => i = j

\* a finished run that emitted a record for two features sharing several cells
C1_Witness ==
    /\ Finished
    /\ \E r \in Records : Cardinality(SharedCells(r.fid_a, r.fid_b)) >= 2

\* C2: every emitted record has fid_a < fid_b, whatever the insertion order.
C2_Ordered == \A r \in Records : r.fid_a < r.fid_b

\* the unordered pairs that qualify for a record, found without index or marks
Qualifying ==
    {p \in SUBSET {features[i].fid : i \in 1..Len(features)} :
        /\ Cardinality(p) = 2
        /\ \A f \in p : /\ validate_polygon_geometry(features_get(f))
                        /\ get_geometry_area(features_get(f)) > 0
                        /\ get_geometry_extent(features_get(f)) # NoExtent
        /\ \E a, b \in p :
            /\ a < b
            /\ extents_intersect(get_geometry_extent(features_get(a)),
                                 get_geometry_extent(features_get(b)))
            /\ get_intersection_geometry(features_get(a), features_get(b)) # NoneGeom
            /\ get_geometry_area(get_intersection_geometry(features_get(a),
                                                           features_get(b))) > 0
            /\ get_geometry_area(get_intersection_geometry(features_get(a),
                                                           features_get(b)))
                 >= min_overlap_area}

\* C3: find_pairwise_overlaps emits a record for exactly the qualifying pairs.
C3_ExactPairs ==
    (Finished /\ impl = "find_pairwise_overlaps")
        => {{r.fid_a, r.fid_b} : r \in Records} = Qualifying

\* a finished run with a positive area threshold and a qualifying pair that
\* shares several cells
C3_Witness ==
    /\ Finished /\ impl = "find_pairwise_overlaps"
    /\ \E p \in Qualifying : \E a, b \in p :
         /\ a # b
         /\ Cardinality(SharedCells(a, b)) >= 2
    /\ min_overlap_area > 0

\* ------------------------------------------------ SpatialIndex, used directly
PolyC == Geom("polygon", {<<0, 1>>})
PolyF == Geom("polygon", {<<2, 2>>})

\* a polygon without points
EmptyPoly == Geom("polygon", {})

IndexGeoms == {NoneGeom, EmptyPoly, NoExtentPoly, PolyA, PolyC, PolyF}
IndexCellSizes == {<<3, 1>>, <<5, 2>>, <<20, 1>>}
QueryExtents == {get_geometry_extent(g) : g \in IndexGeoms} \ {NoExtent}

InitIndex ==
    /\ InitOverlapIdle
    /\ InitConflictIdle
    /\ InitRoadIdle
    /\ InitClassIdle
    /\ pc = "index"
    /\ sindex \in {SpatialIndex(cs) : cs \in IndexCellSizes}
    /\ query = NoQuery

\* sindex.insert(fid, geometry), any id and geometry, also an id already indexed
IndexInsert ==
    /\ pc = "index"
    /\ ins <= MaxInserts
    /\ \E fid \in Fids, geometry \in IndexGeoms :
         /\ sindex' = insert(sindex, fid, geometry)
         /\ query' = << "insert", fid, geometry >>
    /\ ins' = ins + 1
    /\ candidates' = {}
    /\ UNCHANGED << inputs, pc, extents, idx, processed_pairs, results, calls,
                    conflictVars, roadVars, classVars >>

\* sindex.query_candidates(fid)
IndexQueryCandidates ==
    /\ pc = "index"
    /\ \E fid \in Fids :
         /\ query' = << "query_candidates", fid >>
         /\ candidates' = query_candidates(sindex, fid)
    /\ UNCHANGED << inputs, pc, sindex, extents, ins, idx, processed_pairs, results,
                    calls, conflictVars, roadVars, classVars >>

\* a query that creates the grid cells it looks into
IndexQueryByExtent_setdefault ==
    /\ pc = "index"
    /\ \E extent \in QueryExtents :
         /\ query' = << "query_by_extent", extent >>
         /\ candidates' = query_by_extent(sindex, extent)
         /\ sindex' = [sindex EXCEPT !.grid =
                         [key \in DOMAIN sindex.grid \cup CellsOf(sindex.cell_size, extent) |->
                            IF key \in DOMAIN sindex.grid THEN sindex.grid[key] ELSE << >>]]
    /\ UNCHANGED << inputs, pc, extents, ins, idx, processed_pairs, results,
                    calls, conflictVars, roadVars, classVars >>

\* sindex.query_by_extent(extent)
IndexQueryByExtent ==
    /\ pc = "index"
    /\ \E extent \in QueryExtents :
         /\ query' = << "query_by_extent", extent >>
         /\ candidates' = query_by_extent(sindex, extent)
    /\ UNCHANGED << inputs, pc, sindex, extents, ins, idx, processed_pairs, results,
                    calls, conflictVars, roadVars, classVars >>

NextIndex == IndexInsert \/ IndexQueryCandidates \/ IndexQueryByExtent

SpecIndex == InitIndex /\ [][NextIndex]_vars

\* C4: index soundness: a query for an indexed feature returns every other
\* indexed feature whose extent intersects its extent (boundaries inclusive).
C4_IndexSound ==
    (query # NoQuery /\ query[1] = "query_candidates")
        => \A b \in DOMAIN sindex.extents :
              ( /\ query[2] \in DOMAIN sindex.extents
                /\ b # query[2]
                /\ extents_intersect(sindex.extents[query[2]], sindex.extents[b]) )
                  => /\ b \in candidates
                     /\ query[2] \in query_candidates(sindex, b)

\* a query, under a cell size that is not an integer, that returned a feature
\* whose extent only touches the extent of the queried one
C4_Witness ==
    /\ query # NoQuery /\ query[1] = "query_candidates"
    /\ sindex.cell_size = <<5, 2>>
    /\ \E b \in candidates :
         /\ extents_intersect(sindex.extents[query[2]], sindex.extents[b])
         /\ sindex.extents[query[2]][4] = sindex.extents[b][2]

\* -------------------------------------------- checks/road_qc/engine.py
\* self-intersection detection; a vertex is <<x, y>>, integers
Abs(x) == IF x < 0 THEN -x ELSE x

_cross2d(ox, oy, ax, ay, bx, by) == (ax - ox) * (by - oy) - (ay - oy) * (bx - ox)

_on_segment(px, py, qx, qy, rx, ry) ==
    /\ Min2(px, rx) <= qx /\ qx <= Max2(px, rx)
    /\ Min2(py, ry) <= qy /\ qy <= Max2(py, ry)

_segments_cross(p1, q1, p2, q2) ==
    LET d1 == _cross2d(p2[1], p2[2], q2[1], q2[2], p1[1], p1[2])
        d2 == _cross2d(p2[1], p2[2], q2[1], q2[2], q1[1], q1[2])
        d3 == _cross2d(p1[1], p1[2], q1[1], q1[2], p2[1], p2[2])
        d4 == _cross2d(p1[1], p1[2], q1[1], q1[2], q2[1], q2[2])
    IN  \/ /\ (d1 > 0 /\ d2 < 0) \/ (d1 < 0 /\ d2 > 0)
           /\ (d3 > 0 /\ d4 < 0) \/ (d3 < 0 /\ d4 > 0)
        \/ d1 = 0 /\ _on_segment(p2[1], p2[2], p1[1], p1[2], q2[1], q2[2])
        \/ d2 = 0 /\ _on_segment(p2[1], p2[2], q1[1], q1[2], q2[1], q2[2])
        \/ d3 = 0 /\ _on_segment(p1[1], p1[2], p2[1], p2[2], q1[1], q1[2])
        \/ d4 = 0 /\ _on_segment(p1[1], p1[2], q2[1], q2[2], q1[1], q1[2])

\* denom of _intersection_point; for integers abs(denom) < 1e-12 is denom = 0
Denominator(p1, q1, p2, q2) ==
    (p1[1] - q1[1]) * (p2[2] - q2[2]) - (p1[2] - q1[2]) * (p2[1] - q2[1])

NoPoint == << >>

\* a fraction with a positive denominator
FracNorm(n, d) == IF d < 0 THEN << -n, -d >> ELSE << n, d >>

\* an intersection point measured back from the start of the first segment
_intersection_point_back(p1, q1, p2, q2) ==
    LET denom == Denominator(p1, q1, p2, q2)
        tn == (p1[1] - p2[1]) * (p2[2] - q2[2]) - (p1[2] - p2[2]) * (p2[1] - q2[1])
    IN  IF Abs(denom) = 0 THEN NoPoint
        ELSE << FracNorm(p1[1] * denom - tn * (q1[1] - p1[1]), denom),
                FracNorm(p1[2] * denom - tn * (q1[2] - p1[2]), denom) >>

\* the point (x1 + t * (x2 - x1), y1 + t * (y2 - y1)), t = tn / denom, as a pair
\* of fractions; NoPoint for None
_intersection_point(p1, q1, p2, q2) ==
    LET denom == Denominator(p1, q1, p2, q2)
        tn == (p1[1] - p2[1]) * (p2[2] - q2[2]) - (p1[2] - p2[2]) * (p2[1] - q2[1])
    IN  IF Abs(denom) = 0 THEN NoPoint
        ELSE << FracNorm(p1[1] * denom + tn * (q1[1] - p1[1]), denom),
                FracNorm(p1[2] * denom + tn * (q1[2] - p1[2]), denom) >>

\* a scan of a road that gives up at the first crossing pair, parallel or not
Hits_stop(parts) ==
    LET pairs == UNION {{<<k, i, j>> : i \in 1..(Len(parts[k]) - 1),
                                      j \in 1..(Len(parts[k]) - 1)} : k \in 1..Len(parts)}
        crossing == {h \in pairs :
                       /\ Len(parts[h[1]]) >= 4
                       /\ h[3] >= h[2] + 2
                       /\ _segments_cross(parts[h[1]][h[2]], parts[h[1]][h[2] + 1],
                                          parts[h[1]][h[3]], parts[h[1]][h[3] + 1])}
        before(g, h) == \/ g[1] < h[1]
                        \/ g[1] = h[1] /\ g[2] < h[2]
                        \/ g[1] = h[1] /\ g[2] = h[2] /\ g[3] <= h[3]
    IN  {h \in crossing :
            /\ \A g \in crossing : before(h, g)
            /\ _intersection_point(parts[h[1]][h[2]], parts[h[1]][h[2] + 1],
                                   parts[h[1]][h[3]], parts[h[1]][h[3] + 1]) # NoPoint}

\* the (part, i, j) at which the scan of one road makes a record: segment i is
\* part[i]-part[i+1], 1-based
Hits(parts) ==
    {h \in UNION {{<<k, i, j>> : i \in 1..(Len(parts[k]) - 1), j \in 1..(Len(parts[k]) - 1)} :
                    k \in 1..Len(parts)} :
        /\ Len(parts[h[1]]) >= 4
        /\ h[3] >= h[2] + 2
        /\ _segments_cross(parts[h[1]][h[2]], parts[h[1]][h[2] + 1],
                           parts[h[1]][h[3]], parts[h[1]][h[3] + 1])
        /\ _intersection_point(parts[h[1]][h[2]], parts[h[1]][h[2] + 1],
                               parts[h[1]][h[3]], parts[h[1]][h[3] + 1]) # NoPoint}

LexLE(a, b) ==
    \/ a[1] < b[1]
    \/ a[1] = b[1] /\ a[2] < b[2]
    \/ a[1] = b[1] /\ a[2] = b[2] /\ a[3] <= b[3]

\* the first hit in scan order: the loops stop at it
FirstHit(parts) == CHOOSE h \in Hits(parts) : \A g \in Hits(parts) : LexLE(h, g)

RECURSIVE ScanRoads(_, _)
ScanRoads(vbr, k) ==
    IF k > Len(vbr) THEN << >>
    ELSE LET parts == vbr[k].parts
         IN  IF Hits(parts) = {} THEN ScanRoads(vbr, k + 1)
             ELSE LET h == FirstHit(parts)
                      pt == _intersection_point(parts[h[1]][h[2]], parts[h[1]][h[2] + 1],
                                                parts[h[1]][h[3]], parts[h[1]][h[3] + 1])
                  IN  << [fid |-> vbr[k].fid, x |-> pt[1], y |-> pt[2]] >>
                          \o ScanRoads(vbr, k + 1)

find_self_intersections(vbr) == ScanRoads(vbr, 1)

VertexGrid == (0..2) \X (0..2)
Parts == UNION {[1..n -> VertexGrid] : n \in 0..MaxVerts}

InitSelfInt ==
    /\ InitOverlapIdle
    /\ InitConflictIdle
    /\ InitClassIdle
    /\ sindex = SpatialIndex(<<100, 1>>)
    /\ query = NoQuery
    /\ pc = "self_intersections"
    /\ endpoints_by_road = << >>
    /\ tolerance = 0
    /\ dangles = << >>
    /\ disconnected = << >>
    /\ \E part \in Parts : vertices_by_road = << [fid |-> 1, parts |-> << part >>] >>
    /\ self_intersections = << >>

\* results = find_self_intersections(vertices_by_road)
FindSelfIntersections ==
    /\ pc = "self_intersections"
    /\ self_intersections' = find_self_intersections(vertices_by_road)
    /\ pc' = "done"
    /\ UNCHANGED << inputs, sindex, extents, ins, idx, candidates, processed_pairs,
                    results, calls, query, conflictVars, classVars,
                    endpoints_by_road, tolerance, dangles, disconnected,
                    vertices_by_road >>

NextSelfInt == FindSelfIntersections

SpecSelfInt == InitSelfInt /\ [][NextSelfInt]_vars

\* segment i of a part
Seg(part, i) == << part[i], part[i + 1] >>

\* the two segments have a point in common
SegsShare(s, t) == _segments_cross(s[1], s[2], t[1], t[2])

\* v lies on the segment s
OnSeg(v, s) ==
    /\ _cross2d(s[1][1], s[1][2], s[2][1], s[2][2], v[1], v[2]) = 0
    /\ _on_segment(s[1][1], s[1][2], v[1], v[2], s[2][1], s[2][2])

\* a simple polyline, open or closed: no segment is a single point, segments
\* next to each other on the chain (the last and the first of a closed one
\* included) share only their common vertex, and no other two segments share
\* a point
Simple(part) ==
    LET n == Len(part)
        closed == n >= 4 /\ part[1] = part[n]
        chained(i, j) == j = i + 1 \/ (closed /\ i = 1 /\ j = n - 1)
    IN  /\ n >= 2
        /\ \A i \in 1..(n - 1) : part[i] # part[i + 1]
        /\ \A i, j \in 1..(n - 1) :
             i < j =>
                IF chained(i, j)
                THEN /\ j = i + 1 => ~OnSeg(part[i], Seg(part, j))
                                     /\ ~OnSeg(part[j + 1], Seg(part, i))
                     /\ j # i + 1 => ~OnSeg(part[j], Seg(part, i))
                                     /\ ~OnSeg(part[i + 1], Seg(part, j))
                ELSE ~SegsShare(Seg(part, i), Seg(part, j))

AllSimple ==
    \A k \in 1..Len(vertices_by_road) :
        \A m \in 1..Len(vertices_by_road[k].parts) :
            Simple(vertices_by_road[k].parts[m])

\* C5: a road whose parts are simple polylines, open or closed, gets no record.
C5_SimpleNoRecord ==
    (pc = "done" /\ vertices_by_road # << >> /\ AllSimple) => self_intersections = << >>

\* the same for open polylines only
C5_OpenSimpleNoRecord ==
    (pc = "done" /\ vertices_by_road # << >> /\ AllSimple
        /\ \A k \in 1..Len(vertices_by_road) :
             \A m \in 1..Len(vertices_by_road[k].parts) :
                LET part == vertices_by_road[k].parts[m]
                IN  part[1] # part[Len(part)])
      => self_intersections = << >>

\* ------------------------------------------------ dangles and disconnected
\* coordinates and the tolerance are integers (multiples of one unit)
_grid_key(x, y, cell) == << FloorDiv(x, cell), FloorDiv(y, cell) >>

\* all_eps: (fid, x, y, i) for every endpoint, roads in insertion order
RECURSIVE Flatten(_, _)
Flatten(ebr, k) ==
    IF k > Len(ebr) THEN << >>
    ELSE [i \in 1..Len(ebr[k].pts) |->
            << ebr[k].fid, ebr[k].pts[i][1], ebr[k].pts[i][2], i - 1 >>]
         \o Flatten(ebr, k + 1)

\* grid: cell -> list of the (fid, x, y, i) hashed into it
HashGrid(all_eps, cell) ==
    [key \in {_grid_key(all_eps[n][2], all_eps[n][3], cell) : n \in 1..Len(all_eps)} |->
        SelectSeq(all_eps, LAMBDA e : _grid_key(e[2], e[3], cell) = key)]

\* a search of the endpoint's own cell only
Neighbourhood_own(gx, gy) == {<< gx, gy >>}

\* the 3 x 3 cells around (gx, gy)
Neighbourhood(gx, gy) == {<< gx + dx, gy + dy >> : dx \in {-1, 0, 1}, dy \in {-1, 0, 1}}

\* a comparison that leaves out the distance tol itself
Within_strict(x, y, ox, oy, tol_sq) == (x - ox) * (x - ox) + (y - oy) * (y - oy) < tol_sq

\* (x - ox) ** 2 + (y - oy) ** 2 <= tol_sq
Within(x, y, ox, oy, tol_sq) == (x - ox) * (x - ox) + (y - oy) * (y - oy) <= tol_sq

\* lines 67-84: the value of `connected` for one endpoint
Connected(ep, grid, cell, tol_sq) ==
    LET g == _grid_key(ep[2], ep[3], cell)
    IN  \E key \in Neighbourhood(g[1], g[2]) \cap DOMAIN grid :
            \E n \in 1..Len(grid[key]) :
                /\ grid[key][n][1] # ep[1]
                /\ Within(ep[2], ep[3], grid[key][n][2], grid[key][n][3], tol_sq)
\* a search that returns the connected endpoints
find_dangles_inverted(ebr, tol) ==
    LET cell == FracMax(<< tol, 1 >>, << 1, EpsDen >>)
        tol_sq == tol * tol
        all_eps == Flatten(ebr, 1)
        grid == HashGrid(all_eps, cell)
    IN  SelectSeq(all_eps, LAMBDA ep : Connected(ep, grid, cell, tol_sq))


find_dangles(ebr, tol) ==
    LET cell == FracMax(<< tol, 1 >>, << 1, EpsDen >>)
        tol_sq == tol * tol
        all_eps == Flatten(ebr, 1)
        grid == HashGrid(all_eps, cell)
    IN  SelectSeq(all_eps, LAMBDA ep : ~Connected(ep, grid, cell, tol_sq))

\* a comparison that asks for more dangles than the road has endpoints
Disconnected_more(ebr, dl) ==
    LET dangle_count(fid) == Cardinality({n \in 1..Len(dl) : dl[n][1] = fid})
        keep == SelectSeq(ebr, LAMBDA r : dangle_count(r.fid) > Len(r.pts))
    IN  [n \in 1..Len(keep) |-> keep[n].fid]

\* lines 111-119: the list `disconnected` for a dangle list dl
Disconnected(ebr, dl) ==
    LET dangle_count(fid) == Cardinality({n \in 1..Len(dl) : dl[n][1] = fid})
        keep == SelectSeq(ebr, LAMBDA r : dangle_count(r.fid) >= Len(r.pts))
    IN  [n \in 1..Len(keep) |-> keep[n].fid]

EndpointGrid == ((-1)..MaxCoord) \X (0..1)
EndpointLists == UNION {[1..n -> EndpointGrid] : n \in 0..2}
\* a third road, when there is one
ThirdRoadLists == { << >>, << <<0, 0>> >>, << <<0, 0>>, <<1, 1>> >>,
                    << <<-1, 0>>, <<-1, 0>> >> }

InitDangle ==
    /\ InitOverlapIdle
    /\ InitConflictIdle
    /\ InitClassIdle
    /\ sindex = SpatialIndex(<<100, 1>>)
    /\ query = NoQuery
    /\ pc = "road_qc"
    /\ \E pa \in EndpointLists, pb \in EndpointLists :
         \/ endpoints_by_road = << [fid |-> 1, pts |-> pa], [fid |-> 2, pts |-> pb] >>
         \/ \E pc3 \in ThirdRoadLists :
              endpoints_by_road = << [fid |-> 1, pts |-> pa], [fid |-> 2, pts |-> pb],
                                     [fid |-> 3, pts |-> pc3] >>
    /\ tolerance \in 0..MaxTol
    /\ dangles = << >>
    /\ disconnected = << >>
    /\ vertices_by_road = << >>
    /\ self_intersections = << >>

\* dangles = find_dangles(endpoints_by_road, tolerance)
FindDangles ==
    /\ pc = "road_qc"
    /\ dangles' = find_dangles(endpoints_by_road, tolerance)
    /\ pc' = "find_dangles"
    /\ UNCHANGED << inputs, sindex, extents, ins, idx, candidates, processed_pairs,
                    results, calls, query, conflictVars, classVars,
                    endpoints_by_road, tolerance, disconnected,
                    vertices_by_road, self_intersections >>

\* disconnected, dangles = find_disconnected(endpoints_by_road, tolerance)
FindDisconnected ==
    /\ pc = "road_qc"
    /\ dangles' = find_dangles(endpoints_by_road, tolerance)
    /\ disconnected' = Disconnected(endpoints_by_road, dangles')
    /\ pc' = "find_disconnected"
    /\ UNCHANGED << inputs, sindex, extents, ins, idx, candidates, processed_pairs,
                    results, calls, query, conflictVars, classVars,
                    endpoints_by_road, tolerance,
                    vertices_by_road, self_intersections >>

NextDangle == FindDangles \/ FindDisconnected

SpecDangle == InitDangle /\ [][NextDangle]_vars

\* every endpoint, and those of roads other than fid
AllEndpoints == Flatten(endpoints_by_road, 1)
DistSq(p, q) == (p[2] - q[2]) * (p[2] - q[2]) + (p[3] - q[3]) * (p[3] - q[3])

\* some endpoint of another road lies within the tolerance of endpoint ep
HasPartner(ep) ==
    \E n \in 1..Len(AllEndpoints) :
        /\ AllEndpoints[n][1] # ep[1]
        /\ DistSq(ep, AllEndpoints[n]) <= tolerance * tolerance

\* C6: find_dangles returns exactly the endpoints without an endpoint of another
\* road within the tolerance, each once, as a comparison of all pairs finds them.
C6_DanglesExact ==
    pc = "find_dangles" =>
        dangles = SelectSeq(AllEndpoints, LAMBDA ep : ~HasPartner(ep))

\* a run with a positive tolerance in which an endpoint is connected to one in
\* a neighbouring cell, another has only an endpoint of its own road within the
\* tolerance, and a third has an endpoint of another road in a neighbouring
\* cell that is too far
C6_Witness ==
    /\ pc = "find_dangles"
    /\ tolerance > 0
    /\ \E n, m \in 1..Len(AllEndpoints) :
         /\ AllEndpoints[n][1] # AllEndpoints[m][1]
         /\ DistSq(AllEndpoints[n], AllEndpoints[m]) = tolerance * tolerance
    /\ \E n \in 1..Len(dangles), m \in 1..Len(AllEndpoints) :
         /\ dangles[n][1] = AllEndpoints[m][1]
         /\ dangles[n][4] # AllEndpoints[m][4]
         /\ DistSq(dangles[n], AllEndpoints[m]) <= tolerance * tolerance
    /\ \E n \in 1..Len(dangles), m \in 1..Len(AllEndpoints) :
         /\ dangles[n][1] # AllEndpoints[m][1]
         /\ DistSq(dangles[n], AllEndpoints[m]) = 2 * tolerance * tolerance

\* C7: two endpoints of different roads within the tolerance of each other are
\* both absent from the dangle list.
C7_DangleSymmetry ==
    pc = "find_dangles" =>
        \A n, m \in 1..Len(AllEndpoints) :
            ( /\ AllEndpoints[n][1] # AllEndpoints[m][1]
              /\ DistSq(AllEndpoints[n], AllEndpoints[m]) <= tolerance * tolerance )
                => /\ AllEndpoints[n] \notin SeqRange(dangles)
                   /\ AllEndpoints[m] \notin SeqRange(dangles)

\* two endpoints of different roads exactly the tolerance apart, while another
\* endpoint is a dangle
C7_Witness ==
    /\ pc = "find_dangles"
    /\ tolerance > 0
    /\ dangles # << >>
    /\ \E n, m \in 1..Len(AllEndpoints) :
         /\ AllEndpoints[n][1] # AllEndpoints[m][1]
         /\ DistSq(AllEndpoints[n], AllEndpoints[m]) = tolerance * tolerance

\* the endpoints (fid, x, y, i) of one road
EndpointsOf(r) == {<< r.fid, r.pts[i][1], r.pts[i][2], i - 1 >> : i \in 1..Len(r.pts)}

\* C8: find_disconnected returns the dangle list of find_dangles, and a road id
\* is returned as disconnected iff every endpoint of the road is in that list.
C8_DisconnectedExact ==
    pc = "find_disconnected" =>
        /\ dangles = SelectSeq(AllEndpoints, LAMBDA ep : ~HasPartner(ep))
        /\ \A k \in 1..Len(endpoints_by_road) :
              endpoints_by_road[k].fid \in SeqRange(disconnected)
                <=> EndpointsOf(endpoints_by_road[k]) \subseteq SeqRange(dangles)

\* a run that reports one road and not the other, which has one endpoint
\* connected and one dangling
C8_Witness ==
    /\ pc = "find_disconnected"
    /\ \E k \in 1..Len(endpoints_by_road) :
         /\ endpoints_by_road[k].fid \in SeqRange(disconnected)
         /\ Len(endpoints_by_road[k].pts) = 2
    /\ \E k \in 1..Len(endpoints_by_road) :
         /\ endpoints_by_road[k].fid \notin SeqRange(disconnected)
         /\ Len(endpoints_by_road[k].pts) = 2
         /\ \E d \in SeqRange(dangles) : d[1] = endpoints_by_road[k].fid

\* ------------------------------------------------ classify_overlap, directly
Ratios == {<< k, RatioSteps >> : k \in (-1)..(RatioSteps + 1)}

InitClassify ==
    /\ InitConflictIdle
    /\ InitRoadIdle
    /\ impl = "classify_overlap"
    /\ features = << >>
    /\ min_overlap_area = 0
    /\ duplicate_threshold \in Ratios
    /\ partial_threshold \in Ratios
    /\ extents = << >>
    /\ ins = 1
    /\ idx = 1
    /\ candidates = {}
    /\ processed_pairs = {}
    /\ results = << >>
    /\ calls = << >>
    /\ sindex = SpatialIndex(<<100, 1>>)
    /\ query = NoQuery
    /\ pc = "classify"
    /\ ratio \in Ratios
    /\ classification = ""

\* classification = classify_overlap(ratio, duplicate_threshold, partial_threshold)
Classify ==
    /\ pc = "classify"
    /\ classification' = classify_overlap(ratio, duplicate_threshold, partial_threshold)
    /\ pc' = "classified"
    /\ UNCHANGED << inputs, sindex, extents, ins, idx, candidates, processed_pairs,
                    results, calls, query, conflictVars, roadVars, ratio >>

\* classify_overlap on its own, and inside find_pairwise_overlaps
SpecClassify == (InitClassify \/ InitOverlap) /\ [][Classify \/ NextOverlap]_vars

\* the class the thresholds give a ratio
ClassOf(r, dup, part) ==
    CHOOSE c \in {"DUPLICATE", "PARTIAL", "SLIVER"} :
        /\ c = "DUPLICATE" <=> FracGE(r, dup)
        /\ c = "PARTIAL" <=> (FracLT(r, dup) /\ FracGE(r, part))

\* C9: classify_overlap returns DUPLICATE iff ratio >= duplicate_threshold,
\* PARTIAL iff ratio < duplicate_threshold and ratio >= partial_threshold, and
\* SLIVER otherwise; a record's class is the class of the record's own ratio.
C9_Classification ==
    /\ pc = "classified" =>
         /\ classification \in {"DUPLICATE", "PARTIAL", "SLIVER"}
         /\ classification = "DUPLICATE" <=> FracGE(ratio, duplicate_threshold)
         /\ classification = "PARTIAL" <=>
              (FracLT(ratio, duplicate_threshold) /\ FracGE(ratio, partial_threshold))
    /\ \A r \in Records :
         r.overlap_type = ClassOf(r.overlap_ratio, duplicate_threshold, partial_threshold)

\* a ratio equal to the duplicate threshold, classified
C9_Witness ==
    /\ pc = "classified"
    /\ FracEQ(ratio, duplicate_threshold)
    /\ FracLT(partial_threshold, duplicate_threshold)
    /\ classification = "DUPLICATE"

\* -------------------- checks/building_road_conflict.py: _find_conflicts
\* buildings is the variable features, min_area the variable min_overlap_area,
\* building_index the variable sindex, building_extents the variable extents
ConflictResult(building_fid, road_fid, conflict_geometry, conflict_area, distance) ==
    [building_fid |-> building_fid, road_fid |-> road_fid,
     conflict_geometry |-> conflict_geometry, conflict_area |-> conflict_area,
     road_buffer_distance |-> distance]

LineM == Geom("polyline", {<<1, 2>>, <<2, 2>>})
RaisingLine == [LineL EXCEPT !.op_raises = TRUE]

BuildingGeoms == {NoneGeom, LineL, PolyA, PolyE}
RoadGeoms == {NoneGeom, PolyB, LineL, LineM, RaisingLine}
BufferDistances == {-1, 0, 1, 2}

\* mappings with the ids 1..n in ascending insertion order
AscendingMaps(lib, most) ==
    UNION { { [i \in 1..n |-> [fid |-> i, geom |-> gs[i]]] : gs \in [1..n -> lib] } :
              n \in 0..most }

\* the road mappings: no road, one road or two roads
RoadInputs == AscendingMaps(RoadGeoms, 2)

InitConflict ==
    /\ InitRoadIdle
    /\ InitClassIdle
    /\ impl = "_find_conflicts"
    /\ features \in AscendingMaps(BuildingGeoms, MaxFeatures)
    /\ roads \in RoadInputs
    /\ buffer_distance \in BufferDistances
    /\ min_overlap_area \in MinAreas
    /\ duplicate_threshold = <<9, 10>>
    /\ partial_threshold = <<5, 10>>
    /\ pc = "c_start"
    /\ sindex = SpatialIndex(<<100, 1>>)
    /\ extents = << >>
    /\ ins = 1
    /\ idx = 1
    /\ candidates = {}
    /\ processed_pairs = {}
    /\ results = << >>
    /\ calls = << >>
    /\ query = NoQuery
    /\ buffered_roads = << >>
    /\ conflicts = << >>

\* a cell size without the floor of 10 map units
ConflictCellSize_nofloor(ext, distance) ==
    LET total_w == SumOver(ext, DOMAIN ext, 1)
        total_h == SumOver(ext, DOMAIN ext, 2)
        avg_sz == << total_w + total_h, 2 * Max2(Cardinality(DOMAIN ext), 1) >>
    IN  FracMax(<< avg_sz[1] * 3, avg_sz[2] >>, << distance * BlockSize * 2, 1 >>)

\* avg_sz = max((total_w + total_h) / (2 * max(len(building_extents), 1)), 10.0)
\* cell_sz = max(avg_sz * 3, buffer_distance * 2)
ConflictCellSize(ext, distance) ==
    LET total_w == SumOver(ext, DOMAIN ext, 1)
        total_h == SumOver(ext, DOMAIN ext, 2)
        avg_sz == FracMax(<< total_w + total_h, 2 * Max2(Cardinality(DOMAIN ext), 1) >>,
                          << 10, 1 >>)
    IN  FracMax(<< avg_sz[1] * 3, avg_sz[2] >>, << distance * BlockSize * 2, 1 >>)

\* lines 297-313
ConflictBegin ==
    /\ pc = "c_start"
    /\ extents' = ComputeExtents(features)
    /\ sindex' = SpatialIndex(ConflictCellSize(extents', buffer_distance))
    /\ pc' = IF Len(features) = 0 THEN "c_buffer" ELSE "c_insert"
    /\ UNCHANGED << inputs, ins, idx, candidates, processed_pairs, results, calls,
                    query, conflictVars, roadVars, classVars >>

\* lines 315-319: one round of the loop over buildings
ConflictInsert ==
    /\ pc = "c_insert"
    /\ sindex' = IF get_geometry_extent(features[ins].geom) # NoExtent
                 THEN insert(sindex, features[ins].fid, features[ins].geom)
                 ELSE sindex
    /\ IF ins = Len(features)
       THEN pc' = "c_buffer" /\ ins' = ins
       ELSE pc' = pc /\ ins' = ins + 1
    /\ UNCHANGED << inputs, extents, idx, candidates, processed_pairs, results, calls,
                    query, conflictVars, roadVars, classVars >>

\* lines 326-335 for one road: zero or one entry of buffered_roads
BufferedEntry(road, distance) ==
    LET buffered == buffer_geometry(road.geom, distance)
    IN  IF ~validate_line_geometry(road.geom) THEN << >>
        ELSE IF buffered = NoneGeom THEN << >>
        ELSE IF get_geometry_extent(buffered) = NoExtent THEN << >>
        ELSE << [fid |-> road.fid, geom |-> buffered,
                 extent |-> get_geometry_extent(buffered)] >>

RECURSIVE BufferAll(_, _, _)
BufferAll(rs, k, distance) ==
    IF k > Len(rs) THEN << >>
    ELSE BufferedEntry(rs[k], distance) \o BufferAll(rs, k + 1, distance)

\* lines 323-349: the loop that buffers the roads
ConflictBuffer ==
    /\ pc = "c_buffer"
    /\ buffered_roads' = BufferAll(roads, 1, buffer_distance)
    /\ pc' = IF buffered_roads' = << >> THEN "c_finish" ELSE "c_outer"
    /\ UNCHANGED << inputs, sindex, extents, ins, idx, candidates, processed_pairs,
                    results, calls, query, roads, buffer_distance, conflicts,
                    roadVars, classVars >>
\* a loop over the buffered roads that ends after its first round
ConflictNextOuter_once == pc' = "c_finish" /\ idx' = idx


ConflictNextOuter ==
    IF idx = Len(buffered_roads)
    THEN pc' = "c_finish" /\ idx' = idx
    ELSE pc' = "c_outer" /\ idx' = idx + 1

\* lines 351-357: one round of the loop over the buffered roads, up to the query
ConflictOuter ==
    /\ pc = "c_outer"
    /\ LET found == query_by_extent(sindex, buffered_roads[idx].extent)
       IN  IF found # {}
           THEN candidates' = found /\ pc' = "c_inner" /\ idx' = idx
           ELSE candidates' = {} /\ ConflictNextOuter
    /\ UNCHANGED << inputs, sindex, extents, ins, processed_pairs, results, calls,
                    query, conflictVars, roadVars, classVars >>

\* lines 360-373: is the candidate handed to the geometric intersection?
CandidateReachesIntersection(building_fid, buffer_extent) ==
    /\ features_get(building_fid) # NoneGeom
    /\ validate_polygon_geometry(features_get(building_fid))
    /\ building_fid \in DOMAIN extents
    /\ extents_intersect(buffer_extent, extents[building_fid])

\* lines 375-392: zero or one ConflictResult
CandidateRecord(building_fid, road, min_area, distance) ==
    LET intersection == get_intersection_geometry(features_get(building_fid), road.geom)
        conflict_area == get_geometry_area(intersection)
    IN  IF intersection = NoneGeom THEN << >>
        ELSE IF conflict_area < min_area THEN << >>
        ELSE << ConflictResult(building_fid, road.fid, intersection, conflict_area,
                               distance) >>

\* lines 359-392: one round of the loop over the candidates
ConflictInner ==
    /\ pc = "c_inner"
    /\ \E building_fid \in candidates :
        /\ candidates' = candidates \ {building_fid}
        /\ IF CandidateReachesIntersection(building_fid, buffered_roads[idx].extent)
           THEN /\ calls' = Append(calls, << building_fid, buffered_roads[idx].fid >>)
                /\ conflicts' = conflicts \o
                     CandidateRecord(building_fid, buffered_roads[idx],
                                     min_overlap_area, buffer_distance)
           ELSE UNCHANGED << calls, conflicts >>
        /\ IF candidates' = {}
           THEN ConflictNextOuter
           ELSE pc' = pc /\ idx' = idx
    /\ UNCHANGED << inputs, sindex, extents, ins, processed_pairs, results, query,
                    roads, buffer_distance, buffered_roads, roadVars, classVars >>

\* lines 394-395
ConflictFinish ==
    /\ pc = "c_finish"
    /\ pc' = "done"
    /\ UNCHANGED << inputs, sindex, extents, ins, idx, candidates, processed_pairs,
                    results, calls, query, conflictVars, roadVars, classVars >>

NextConflict ==
    \/ ConflictBegin \/ ConflictInsert \/ ConflictBuffer
    \/ ConflictOuter \/ ConflictInner \/ ConflictFinish

SpecConflict == InitConflict /\ [][NextConflict]_vars

\* both engines
SpecEngines == (InitOverlap \/ InitConflict) /\ [][NextOverlap \/ NextConflict]_vars

\* C10: every OverlapResult and every ConflictResult has a positive area that
\* is at least the minimum area handed to the engine, also for a minimum <= 0.
C10_AreaFloor ==
    /\ \A r \in Records :
         r.overlap_area > 0 /\ r.overlap_area >= min_overlap_area
    /\ \A c \in SeqRange(conflicts) :
         c.conflict_area > 0 /\ c.conflict_area >= min_overlap_area

\* a finished run of _find_conflicts with a negative minimum area that made a
\* record and also met a candidate whose intersection with the buffer is empty
C10_Witness ==
    /\ pc = "done" /\ impl = "_find_conflicts"
    /\ min_overlap_area < 0
    /\ conflicts # << >>
    /\ \E c \in SeqRange(calls) :
         \A r \in SeqRange(conflicts) : << r.building_fid, r.road_fid >> # c

\* ------------------------------------------------------- the overlap ratio
\* the smaller of the areas of the two source features of a record
SmallerArea(r) == Min2(Area(features_get(r.fid_a)), Area(features_get(r.fid_b)))

\* C11: in every OverlapResult overlap_ratio is overlap_area divided by the
\* smaller of the two source areas, overlap_area is at most that area, and
\* 0 <= overlap_ratio <= 1.
C11_Ratio ==
    \A r \in Records :
        /\ SmallerArea(r) > 0
        /\ r.overlap_area = Area(r.overlap_geometry)
        /\ FracEQ(r.overlap_ratio, << r.overlap_area, SmallerArea(r) >>)
        /\ r.overlap_area <= SmallerArea(r)
        /\ FracGE(r.overlap_ratio, <<0, 1>>)
        /\ FracGE(<<1, 1>>, r.overlap_ratio)

\* a finished run with a record for two features of different areas whose
\* ratio lies strictly between 0 and 1
C11_Witness ==
    /\ Finished
    /\ \E r \in Records :
         /\ Area(features_get(r.fid_a)) # Area(features_get(r.fid_b))
         /\ FracLT(<<0, 1>>, r.overlap_ratio)
         /\ FracLT(r.overlap_ratio, <<1, 1>>)

\* ------------------------------------- the overlap engines on three features
\* 2 x 2 blocks; SquareP and SquareQ share one block, PolyG lies apart from
\* SquareP and touches the extent of SquareQ in one corner
SquareP == Geom("polygon", {<<0, 0>>, <<1, 0>>, <<0, 1>>, <<1, 1>>})
SquareQ == Geom("polygon", {<<1, 1>>, <<2, 1>>, <<1, 2>>, <<2, 2>>})
PolyG == Geom("polygon", {<<3, 0>>})

BatchGeoms == {NoneGeom, LineL, RaisingPoly, NoExtentPoly, PolyG, SquareP, SquareQ}

\* the keys of the mapping in insertion order: up to two of the ids 1, 2, 3 in
\* any order, or all three in one of two orders
BatchOrders ==
    UNION {InjSeqs({1, 2, 3}, n) : n \in 0..2} \cup {<<1, 2, 3>>, <<3, 1, 2>>}

BatchMaps ==
    UNION { { [i \in 1..Len(ord) |-> [fid |-> ord[i], geom |-> gs[i]]] :
                gs \in [1..Len(ord) -> BatchGeoms] } : ord \in BatchOrders }

InitBatch ==
    /\ impl \in {"find_pairwise_overlaps", "_find_overlaps"}
    /\ features \in BatchMaps
    /\ min_overlap_area \in MinAreas
    /\ duplicate_threshold = <<9, 10>>
    /\ partial_threshold = <<5, 10>>
    /\ pc = "start"
    /\ sindex = SpatialIndex(<<100, 1>>)
    /\ extents = << >>
    /\ ins = 1
    /\ idx = 1
    /\ candidates = {}
    /\ processed_pairs = {}
    /\ results = << >>
    /\ calls = << >>
    /\ query = NoQuery
    /\ InitConflictIdle
    /\ InitRoadIdle
    /\ InitClassIdle

SpecBatch == InitBatch /\ [][NextOverlap]_vars

\* C12: the geometric intersection is attempted at most once per unordered
\* pair, and only for two different features that both pass the polygon
\* validation, both have an extent, and whose extents intersect.
C12_IntersectOnce ==
    /\ \A i, j \in 1..Len(calls) :
         {calls[i][1], calls[i][2]} = {calls[j][1], calls[j][2]} => i = j
    /\ \A c \in SeqRange(calls) :
         /\ c[1] # c[2]
         /\ validate_polygon_geometry(features_get(c[1]))
         /\ validate_polygon_geometry(features_get(c[2]))
         /\ get_geometry_extent(features_get(c[1])) # NoExtent
         /\ get_geometry_extent(features_get(c[2])) # NoExtent
         /\ extents_intersect(get_geometry_extent(features_get(c[1])),
                              get_geometry_extent(features_get(c[2])))

\* a finished run on three valid polygons: one pair was intersected, another
\* pair shared a cell, was met from both sides and was not intersected because
\* its extents are apart
C12_Witness ==
    /\ Finished
    /\ Len(features) = 3
    /\ calls # << >>
    /\ \E p \in processed_pairs :
         /\ SharedCells(p[1], p[2]) # {}
         /\ validate_polygon_geometry(features_get(p[1]))
         /\ validate_polygon_geometry(features_get(p[2]))
         /\ ~extents_intersect(extents[p[1]], extents[p[2]])
         /\ \A c \in SeqRange(calls) : {c[1], c[2]} # {p[1], p[2]}

\* ------------------------------- find_self_intersections on several roads
Part3 == << <<0, 0>>, <<2, 0>>, <<1, 0>> >>
OpenZ == << <<0, 0>>, <<2, 0>>, <<2, 2>>, <<0, 2>> >>
Bowtie == << <<0, 0>>, <<2, 2>>, <<2, 0>>, <<0, 2>> >>
Triangle == << <<0, 0>>, <<0, 2>>, <<2, 0>>, <<0, 0>> >>
\* the third segment runs back along the first
Collinear == << <<0, 0>>, <<2, 0>>, <<1, 0>>, <<0, 0>> >>
\* the same, followed by a segment that meets the first one
CollinearThenCross == << <<0, 0>>, <<2, 0>>, <<1, 0>>, <<0, 0>>, <<1, 1>> >>
\* two crossings in different points
ClosedBowtie == << <<0, 0>>, <<2, 2>>, <<2, 0>>, <<0, 2>>, <<0, 0>> >>

PartLib == {<< >>, Part3, OpenZ, Bowtie, Triangle, Collinear, CollinearThenCross,
            ClosedBowtie}
PartLists == UNION {[1..n -> PartLib] : n \in 0..2}

\* one road with one part of four vertices, or up to two roads with up to two
\* parts each
RoadMaps(grid, lists) ==
    { << [fid |-> 1, parts |-> << part >>] >> : part \in [1..4 -> grid] }
    \cup UNION { { [k \in 1..Len(ord) |-> [fid |-> ord[k], parts |-> ps[k]]] :
                     ps \in [1..Len(ord) -> lists] } :
                 ord \in {<< >>, <<1>>, <<2>>, <<1, 2>>, <<2, 1>>} }

InitSelfIntRoads ==
    /\ InitOverlapIdle
    /\ InitConflictIdle
    /\ InitClassIdle
    /\ sindex = SpatialIndex(<<100, 1>>)
    /\ query = NoQuery
    /\ pc = "self_intersections"
    /\ endpoints_by_road = << >>
    /\ tolerance = 0
    /\ dangles = << >>
    /\ disconnected = << >>
    /\ vertices_by_road \in RoadMaps(VertexGrid, PartLists)
    /\ self_intersections = << >>

SpecSelfIntRoads == InitSelfIntRoads /\ [][NextSelfInt]_vars

\* segments i and j of part m form a pair the scan compares, _segments_cross
\* accepts it, and the two lines are not parallel
CrossAt(parts, m, i, j) ==
    /\ Len(parts[m]) >= 4
    /\ j >= i + 2
    /\ _segments_cross(parts[m][i], parts[m][i + 1], parts[m][j], parts[m][j + 1])
    /\ Denominator(parts[m][i], parts[m][i + 1], parts[m][j], parts[m][j + 1]) # 0

\* (m, i, j) comes before (m2, i2, j2) in the order of the scan
ScanBefore(m, i, j, m2, i2, j2) ==
    \/ m < m2
    \/ m = m2 /\ i < i2
    \/ m = m2 /\ i = i2 /\ j < j2

PairsOf(parts) ==
    UNION {{<<m, i, j>> : i \in 1..(Len(parts[m]) - 1), j \in 1..(Len(parts[m]) - 1)} :
             m \in 1..Len(parts)}

\* C13: find_self_intersections returns at most one record per road id; a road
\* has a record iff some part with at least four vertices has segments i and
\* j >= i + 2 that _segments_cross accepts and that are not parallel; the
\* record holds the intersection point of the first such pair in (part, i, j)
\* order, also when crossing pairs rejected as parallel come before it.
C13_FirstCrossing ==
    pc = "done" =>
        /\ \A a, b \in 1..Len(self_intersections) :
             self_intersections[a].fid = self_intersections[b].fid => a = b
        /\ \A k \in 1..Len(vertices_by_road) :
             LET parts == vertices_by_road[k].parts
                 recs == {a \in 1..Len(self_intersections) :
                            self_intersections[a].fid = vertices_by_road[k].fid}
             IN  /\ recs # {} <=> \E h \in PairsOf(parts) : CrossAt(parts, h[1], h[2], h[3])
                 /\ \A a \in recs : \E h \in PairsOf(parts) :
                      /\ CrossAt(parts, h[1], h[2], h[3])
                      /\ \A g \in PairsOf(parts) :
                           CrossAt(parts, g[1], g[2], g[3])
                             => ~ScanBefore(g[1], g[2], g[3], h[1], h[2], h[3])
                      /\ << self_intersections[a].x, self_intersections[a].y >> =
                           _intersection_point(parts[h[1]][h[2]], parts[h[1]][h[2] + 1],
                                               parts[h[1]][h[3]], parts[h[1]][h[3] + 1])

\* a run on two roads: one has a crossing pair that is rejected as parallel
\* and a later pair that is reported, one has crossings in two different
\* points in different parts and gets one record
C13_Witness ==
    /\ pc = "done"
    /\ Len(vertices_by_road) = 2
    /\ Len(self_intersections) = 2
    /\ \E k \in 1..2 : vertices_by_road[k].parts = << Collinear, CollinearThenCross >>
    /\ \E k \in 1..2 : vertices_by_road[k].parts = << ClosedBowtie, Triangle >>

\* ------------------------------------------ find_features_intersecting_buffer
\* core/spatial_ops.py, lines 317-363: the un-indexed search, as a list of
\* <<fid, intersection, area>>
RECURSIVE ScanFeatures(_, _, _, _)
ScanFeatures(fs, k, buffer, min_intersection_area) ==
    IF k > Len(fs) THEN << >>
    ELSE LET geom == fs[k].geom
             intersection == get_intersection_geometry(geom, buffer)
             inter_area == get_geometry_area(intersection)
             hit == /\ validate_polygon_geometry(geom)
                    /\ get_geometry_extent(geom) # NoExtent
                    /\ extents_intersect(get_geometry_extent(buffer),
                                         get_geometry_extent(geom))
                    /\ intersection # NoneGeom
                    /\ inter_area >= min_intersection_area
         IN  (IF hit THEN << << fs[k].fid, intersection, inter_area >> >> ELSE << >>)
                \o ScanFeatures(fs, k + 1, buffer, min_intersection_area)

find_features_intersecting_buffer(fs, buffer, min_intersection_area) ==
    IF is_geometry_null(buffer) THEN << >>
    ELSE IF get_geometry_extent(buffer) = NoExtent THEN << >>
    ELSE ScanFeatures(fs, 1, buffer, min_intersection_area)

\* the (building, road) pairs that qualify for a ConflictResult, found without
\* the index
QualifyingConflicts ==
    {p \in {features[i].fid : i \in 1..Len(features)}
             \X {roads[j].fid : j \in 1..Len(roads)} :
        LET building == features_get(p[1])
            road == roads[CHOOSE j \in 1..Len(roads) : roads[j].fid = p[2]].geom
            buffered == buffer_geometry(road, buffer_distance)
        IN  /\ validate_line_geometry(road)
            /\ buffered # NoneGeom
            /\ get_geometry_extent(buffered) # NoExtent
            /\ validate_polygon_geometry(building)
            /\ get_geometry_extent(building) # NoExtent
            /\ extents_intersect(get_geometry_extent(buffered),
                                 get_geometry_extent(building))
            /\ ~building.op_raises /\ ~buffered.op_raises
            /\ Area(Intersect(building, buffered)) > 0
            /\ Area(Intersect(building, buffered)) >= min_overlap_area}

\* C14: _find_conflicts returns one ConflictResult for exactly the qualifying
\* (building, road) pairs, and for every buffered road the buildings, the
\* geometries and the areas reported are those the un-indexed
\* find_features_intersecting_buffer returns for that buffer.
C14_ExactConflicts ==
    (pc = "done" /\ impl = "_find_conflicts") =>
        /\ {<< c.building_fid, c.road_fid >> : c \in SeqRange(conflicts)} = QualifyingConflicts
        /\ Len(conflicts) = Cardinality(QualifyingConflicts)
        /\ \A k \in 1..Len(buffered_roads) :
             {<< c.building_fid, c.conflict_geometry, c.conflict_area >> :
                 c \in {x \in SeqRange(conflicts) : x.road_fid = buffered_roads[k].fid}}
               = SeqRange(find_features_intersecting_buffer(features, buffered_roads[k].geom,
                                                            min_overlap_area))

\* a finished run in which one building is reported with two roads and one
\* road with two buildings
C14_Witness ==
    /\ pc = "done" /\ impl = "_find_conflicts"
    /\ \E c1, c2 \in SeqRange(conflicts) :
         c1.building_fid = c2.building_fid /\ c1.road_fid # c2.road_fid
    /\ \E c1, c2 \in SeqRange(conflicts) :
         c1.road_fid = c2.road_fid /\ c1.building_fid # c2.building_fid

\* --------------------------------------------- what the index queries return
\* the cell key = (col, row) is one of the cells the extent spans: the cell
\* [col * cell_size, (col + 1) * cell_size) meets [XMin, XMax], and the same
\* for the rows
Spanned(cs, extent, key) ==
    /\ key[1] * cs[1] <= extent[3] * cs[2]
    /\ (key[1] + 1) * cs[1] > extent[1] * cs[2]
    /\ key[2] * cs[1] <= extent[4] * cs[2]
    /\ (key[2] + 1) * cs[1] > extent[2] * cs[2]

\* the ids stored in the cells the extent spans
StoredIn(ix, extent) ==
    {b \in Fids : \E key \in DOMAIN ix.grid :
        /\ Spanned(ix.cell_size, extent, key)
        /\ \E n \in 1..Len(ix.grid[key]) : ix.grid[key][n] = b}

\* C15: query_candidates(fid) returns the ids stored in the cells spanned by
\* the extent of fid, without fid, and nothing when fid is not indexed;
\* query_by_extent(extent) returns the ids stored in the cells spanned by the
\* extent, none removed.  (Both build a set, so no id is repeated.)
C15_QueryUnion ==
    /\ (query # NoQuery /\ query[1] = "query_candidates") =>
         candidates = IF query[2] \in DOMAIN sindex.extents
                      THEN StoredIn(sindex, sindex.extents[query[2]]) \ {query[2]}
                      ELSE {}
    /\ (query # NoQuery /\ query[1] = "query_by_extent") =>
         candidates = StoredIn(sindex, query[2])

\* a query for an indexed id that returned another id which is stored twice
\* in one cell and in several of the cells searched
C15_Witness ==
    /\ query # NoQuery /\ query[1] = "query_candidates"
    /\ query[2] \in DOMAIN sindex.extents
    /\ \E b \in candidates :
         /\ \E key \in DOMAIN sindex.grid :
              Cardinality({n \in 1..Len(sindex.grid[key]) : sindex.grid[key][n] = b}) >= 2
         /\ Cardinality({key \in DOMAIN sindex.grid :
                           /\ Spanned(sindex.cell_size, sindex.extents[query[2]], key)
                           /\ b \in SeqRange(sindex.grid[key])}) >= 2

\* ----------------------------------------------------- inserts that are skipped
\* the geometry is null or empty, or its extent cannot be computed
Unindexable(g) == is_geometry_null(g) \/ get_geometry_extent(g) = NoExtent

\* the ids held anywhere in the grid
GridIds(ix) == UNION {SeqRange(ix.grid[key]) : key \in DOMAIN ix.grid}

\* C16: an insert of a null or empty geometry, or of one whose extent cannot be
\* computed, leaves grid, extents and geometries as they were; an id gets into
\* them only by an insert of a geometry with an extent, and the queries return
\* no other ids.
C16_SkippedInsert ==
    /\ [](pc = "index" =>
            /\ DOMAIN sindex.extents = DOMAIN sindex.geometries
            /\ GridIds(sindex) = DOMAIN sindex.geometries
            /\ (query # NoQuery /\ query[1] # "insert")
                  => candidates \subseteq DOMAIN sindex.geometries)
    /\ [][(pc = "index" /\ ins' = ins + 1) =>
            IF Unindexable(query'[3])
            THEN sindex' = sindex
            ELSE /\ DOMAIN sindex'.geometries = DOMAIN sindex.geometries \cup {query'[2]}
                 /\ query'[2] \in GridIds(sindex')]_vars

\* the index holds a feature, and the last insert, of a geometry whose extent
\* cannot be computed under an id not indexed before, was skipped
C16_Witness ==
    /\ query # NoQuery /\ query[1] = "insert"
    /\ query[3] = NoExtentPoly
    /\ query[2] \notin DOMAIN sindex.geometries
    /\ sindex.grid # << >>

\* ------------------------------------------------------- skip and continue
SpecBatchEngines == (InitBatch \/ InitConflict) /\ [][NextOverlap \/ NextConflict]_vars

\* a feature the overlap engines cannot use: not a valid polygon, no extent,
\* or a provider failure when it is intersected
BadFeature(g) ==
    \/ ~validate_polygon_geometry(g)
    \/ get_geometry_extent(g) = NoExtent
    \/ g.op_raises

\* a road _find_conflicts cannot use for the distance k
BadRoad(g, k) ==
    \/ ~validate_line_geometry(g)
    \/ buffer_geometry(g, k) = NoneGeom
    \/ get_geometry_extent(buffer_geometry(g, k)) = NoExtent
    \/ buffer_geometry(g, k).op_raises

\* the records of an input without bad features, by a comparison of all pairs
\* in insertion order
RefOverlaps(fs, min_area, dup, part) ==
    {OverlapResult(fs[i].fid, fs[j].fid, Intersect(fs[i].geom, fs[j].geom),
                   Area(Intersect(fs[i].geom, fs[j].geom)),
                   << Area(Intersect(fs[i].geom, fs[j].geom)),
                      Min2(Area(fs[i].geom), Area(fs[j].geom)) >>,
                   classify_overlap(<< Area(Intersect(fs[i].geom, fs[j].geom)),
                                       Min2(Area(fs[i].geom), Area(fs[j].geom)) >>,
                                    dup, part)) :
        <<i, j>> \in {p \in (1..Len(fs)) \X (1..Len(fs)) :
                       /\ p[1] < p[2]
                       /\ Area(Intersect(fs[p[1]].geom, fs[p[2]].geom)) > 0
                       /\ Area(Intersect(fs[p[1]].geom, fs[p[2]].geom)) >= min_area}}

\* the same for buildings and roads without bad ones
RefConflicts(bs, rs, k, min_area) ==
    {ConflictResult(bs[i].fid, rs[j].fid,
                    Intersect(bs[i].geom, buffer_geometry(rs[j].geom, k)),
                    Area(Intersect(bs[i].geom, buffer_geometry(rs[j].geom, k))), k) :
        <<i, j>> \in {p \in (1..Len(bs)) \X (1..Len(rs)) :
                       /\ Area(Intersect(bs[p[1]].geom,
                                         buffer_geometry(rs[p[2]].geom, k))) > 0
                       /\ Area(Intersect(bs[p[1]].geom,
                                         buffer_geometry(rs[p[2]].geom, k))) >= min_area}}

GoodFeatures == SelectSeq(features, LAMBDA f : ~BadFeature(f.geom))
GoodRoads == SelectSeq(roads, LAMBDA r : ~BadRoad(r.geom, buffer_distance))

\* the running engine can take its next step: the cell size is positive, the
\* loop positions are inside their lists, and every candidate is a key of the
\* input mapping
CanStep ==
    /\ pc \in {"start", "insert", "outer", "inner", "finish",
               "c_start", "c_insert", "c_buffer", "c_outer", "c_inner", "c_finish", "done"}
    /\ sindex.cell_size[1] > 0 /\ sindex.cell_size[2] > 0
    /\ pc \in {"insert", "c_insert"} => ins \in 1..Len(features)
    /\ pc \in {"outer", "inner"} => idx \in 1..Len(features)
    /\ pc \in {"c_outer", "c_inner"} => idx \in 1..Len(buffered_roads)
    /\ pc \in {"inner", "c_inner"} =>
         /\ candidates # {}
         /\ candidates \subseteq {features[i].fid : i \in 1..Len(features)}

\* C17: a run is never stopped by a bad feature or a provider failure: until
\* the end it can take its next step; no record names a bad feature; and the
\* records of a finished run are those of the input without its bad features
\* and roads, each once.
C17_SkipAndContinue ==
    /\ CanStep
    /\ \A r \in Records :
         ~BadFeature(features_get(r.fid_a)) /\ ~BadFeature(features_get(r.fid_b))
    /\ \A c \in SeqRange(conflicts) :
         /\ ~BadFeature(features_get(c.building_fid))
         /\ \E j \in 1..Len(roads) :
              roads[j].fid = c.road_fid /\ ~BadRoad(roads[j].geom, buffer_distance)
    /\ (pc = "done" /\ impl \in {"find_pairwise_overlaps", "_find_overlaps"}) =>
         /\ Records = RefOverlaps(GoodFeatures, min_overlap_area,
                                  duplicate_threshold, partial_threshold)
         /\ Len(results) = Cardinality(Records)
    /\ (pc = "done" /\ impl = "_find_conflicts") =>
         /\ SeqRange(conflicts) = RefConflicts(GoodFeatures, GoodRoads, buffer_distance,
                                               min_overlap_area)
         /\ Len(conflicts) = Cardinality(SeqRange(conflicts))

\* a finished run on three features that made a record for two of them after
\* the intersection with the third, which comes first in the input, had failed
C17_Witness ==
    /\ Finished
    /\ Len(features) = 3
    /\ features[1].geom.op_raises
    /\ Len(results) = 1
    /\ \E c \in SeqRange(calls) : features[1].fid \in {c[1], c[2]}

\* ------------------------------------------------------------ empty results
\* the features that are polygons with a positive area
ValidPolygons ==
    {i \in 1..Len(features) :
        /\ features[i].geom.type = "polygon"
        /\ features[i].geom.blocks # {}
        /\ Area(features[i].geom) > 0}

\* the features whose extent can be computed
WithExtent ==
    {i \in 1..Len(features) :
        /\ features[i].geom.type # "None"
        /\ features[i].geom.blocks # {}
        /\ ~features[i].geom.extent_raises}

\* C18: find_pairwise_overlaps and _find_overlaps emit nothing, and no step of
\* the run fails, when the input is empty, when no feature has an extent, or
\* when fewer than two features are valid polygons with a positive area.
C18_EmptyResult ==
    (\/ Len(features) = 0
     \/ WithExtent = {}
     \/ Cardinality(ValidPolygons) < 2)
        => results = << >> /\ CanStep

\* a finished run on three features with extents, only one of them a valid
\* polygon, that went through the loops and emitted nothing
C18_Witness ==
    /\ Finished
    /\ Len(features) = 3
    /\ Cardinality(WithExtent) = 3
    /\ Cardinality(ValidPolygons) = 1
    /\ processed_pairs # {}
    /\ results = << >>

\* ---------------------------------------------------- non-positive distances
\* the roads that pass the line validation and have an extent, as entries of
\* buffered_roads that hold the road geometry itself
UnbufferedEntries ==
    LET usable == SelectSeq(roads, LAMBDA r : /\ validate_line_geometry(r.geom)
                                              /\ get_geometry_extent(r.geom) # NoExtent)
    IN  [j \in 1..Len(usable) |->
            [fid |-> usable[j].fid, geom |-> usable[j].geom,
             extent |-> get_geometry_extent(usable[j].geom)]]

\* C19: for a distance <= 0 buffer_geometry returns None for a null geometry
\* and the geometry itself otherwise, so _find_conflicts run with such a
\* distance holds, and tests the buildings against, the road geometries as
\* they are.
C19_NoBuffer ==
    (impl = "_find_conflicts" /\ buffer_distance <= 0) =>
        /\ \A j \in 1..Len(roads) :
             buffer_geometry(roads[j].geom, buffer_distance) =
                IF is_geometry_null(roads[j].geom) THEN NoneGeom ELSE roads[j].geom
        /\ pc \in {"c_outer", "c_inner", "c_finish", "done"} =>
             buffered_roads = UnbufferedEntries
        /\ \A c \in SeqRange(calls) :
             \E j \in 1..Len(buffered_roads) :
                /\ buffered_roads[j].fid = c[2]
                /\ \E n \in 1..Len(roads) :
                     roads[n].fid = c[2] /\ roads[n].geom = buffered_roads[j].geom

\* a finished run with the distance 0 that tested a building against a road
\* and skipped a road that is not a line
C19_Witness ==
    /\ pc = "done" /\ impl = "_find_conflicts"
    /\ buffer_distance = 0
    /\ calls # << >>
    /\ Len(buffered_roads) < Len(roads)

\* ------------------------------------------------------ the overlap scenario
\* the input is two squares of equal area whose intersection is a quarter of
\* each (SquareP and SquareQ, under any two ids in any order), the minimum area
\* is 0 and the thresholds are 0.9 and 0.5
OverlapScenario ==
    /\ Len(features) = 2
    /\ {features[1].geom, features[2].geom} = {SquareP, SquareQ}
    /\ 4 * Area(Intersect(SquareP, SquareQ)) = Area(SquareP)
    /\ Area(SquareP) = Area(SquareQ)
    /\ min_overlap_area = 0
    /\ duplicate_threshold = <<9, 10>>
    /\ partial_threshold = <<5, 10>>

\* C20: in the overlap scenario find_pairwise_overlaps emits exactly one record;
\* its area is a quarter of the area of a square, its ratio is 0.25 and its
\* class is SLIVER.
C20_Scenario ==
    (Finished /\ impl = "find_pairwise_overlaps" /\ OverlapScenario) =>
        /\ Len(results) = 1
        /\ {results[1].fid_a, results[1].fid_b} = {features[1].fid, features[2].fid}
        /\ 4 * results[1].overlap_area = Area(SquareP)
        /\ FracEQ(results[1].overlap_ratio, <<1, 4>>)
        /\ results[1].overlap_type = "SLIVER"

\* a finished run of find_pairwise_overlaps on the scenario
C20_Witness ==
    /\ Finished /\ impl = "find_pairwise_overlaps"
    /\ OverlapScenario
    /\ results # << >>

\* -------------------------------------------------------- the dangle scenario
\* lengths in units of half a map unit: the tolerance 1 is 0.5 map units, the
\* road A runs from (0,0) to (1,0) map units, the road B has its two endpoints
\* anywhere on the points (0,0), (0.5,0), ..., (3,0)
ScenarioLine == (0..6) \X {0}
RoadA == << <<0, 0>>, <<2, 0>> >>
RoadBApart == << <<4, 0>>, <<6, 0>> >>
RoadBJoined == << <<2, 0>>, <<6, 0>> >>

InitDangleScenario ==
    /\ InitOverlapIdle
    /\ InitConflictIdle
    /\ InitClassIdle
    /\ sindex = SpatialIndex(<<100, 1>>)
    /\ query = NoQuery
    /\ pc = "road_qc"
    /\ \E pb \in [1..2 -> ScenarioLine] :
         \/ endpoints_by_road = << [fid |-> 1, pts |-> RoadA], [fid |-> 2, pts |-> pb] >>
         \/ endpoints_by_road = << [fid |-> 2, pts |-> pb], [fid |-> 1, pts |-> RoadA] >>
    /\ tolerance \in {1, 2}
    /\ dangles = << >>
    /\ disconnected = << >>
    /\ vertices_by_road = << >>
    /\ self_intersections = << >>

SpecDangleScenario == InitDangleScenario /\ [][NextDangle]_vars

\* the endpoints of road fid in the input
ScenarioPts(fid) ==
    endpoints_by_road[CHOOSE k \in 1..Len(endpoints_by_road) :
                        endpoints_by_road[k].fid = fid].pts

\* C21: with the tolerance 0.5, the roads A (0,0)-(1,0) and B (2,0)-(3,0) give
\* four dangles; the roads A (0,0)-(1,0) and B (1,0)-(3,0) give exactly two,
\* (0,0) of A and (3,0) of B.
C21_DangleScenario ==
    (pc = "find_dangles" /\ tolerance = 1 /\ ScenarioPts(1) = RoadA) =>
        /\ ScenarioPts(2) = RoadBApart =>
             /\ Len(dangles) = 4
             /\ SeqRange(dangles) = {<<1, 0, 0, 0>>, <<1, 2, 0, 1>>,
                                     <<2, 4, 0, 0>>, <<2, 6, 0, 1>>}
        /\ ScenarioPts(2) = RoadBJoined =>
             /\ Len(dangles) = 2
             /\ SeqRange(dangles) = {<<1, 0, 0, 0>>, <<2, 6, 0, 1>>}

\* find_dangles has run on the second input of the scenario, B given first
C21_Witness ==
    /\ pc = "find_dangles"
    /\ tolerance = 1
    /\ endpoints_by_road = << [fid |-> 2, pts |-> RoadBJoined], [fid |-> 1, pts |-> RoadA] >>
    /\ Len(dangles) = 2

\* ---------------------------------------------- the self-intersection scenario
ScenarioPart == << <<0, 0>>, <<2, 2>>, <<0, 2>>, <<2, 0>> >>

\* C22: a road with the single part (0,0)-(2,2)-(0,2)-(2,0) gets exactly one
\* record, at the point (1,1), where its first and its third segment cross.
C22_SelfIntScenario ==
    (pc = "done" /\ Len(vertices_by_road) = 1
       /\ vertices_by_road[1].parts = << ScenarioPart >>) =>
        /\ Len(self_intersections) = 1
        /\ self_intersections[1].fid = vertices_by_road[1].fid
        /\ FracEQ(self_intersections[1].x, <<1, 1>>)
        /\ FracEQ(self_intersections[1].y, <<1, 1>>)
        /\ \A h \in PairsOf(<< ScenarioPart >>) :
             CrossAt(<< ScenarioPart >>, h[1], h[2], h[3]) <=> h = <<1, 1, 3>>

\* find_self_intersections has run on the road of the scenario
C22_Witness ==
    /\ pc = "done"
    /\ Len(vertices_by_road) = 1
    /\ vertices_by_road[1].parts = << ScenarioPart >>
    /\ self_intersections # << >>

\* ------------------------------------- SpatialIndex with any cell size at all
\* xmin // self.cell_size raises ZeroDivisionError when the cell size is 0
ZeroDivision(ix) == ix.cell_size[1] = 0

\* what insert has stored when the division raises: the geometry and the extent
insert_stored(ix, fid, geometry) ==
    [ix EXCEPT !.geometries = DictPut(ix.geometries, fid, geometry),
               !.extents = DictPut(ix.extents, fid, get_geometry_extent(geometry))]

insert_raises(ix, fid, geometry) ==
    /\ ~ is_geometry_null(geometry)
    /\ get_geometry_extent(geometry) # NoExtent
    /\ ZeroDivision(ix)

query_candidates_raises(ix, fid) == fid \in DOMAIN ix.extents /\ ZeroDivision(ix)

query_by_extent_raises(ix, extent) == ZeroDivision(ix)

AnyCellSizes == IndexCellSizes \cup {<<0, 1>>}

InitIndexAny ==
    /\ InitOverlapIdle
    /\ InitConflictIdle
    /\ InitRoadIdle
    /\ InitClassIdle
    /\ pc = "index"
    /\ sindex \in {SpatialIndex(cs) : cs \in AnyCellSizes}
    /\ query = NoQuery

\* sindex.insert(fid, geometry); the caller goes on after an exception
CallInsert ==
    /\ pc \in {"index", "raised"}
    /\ ins <= MaxInserts
    /\ \E fid \in Fids, geometry \in IndexGeoms :
         /\ query' = << "insert", fid, geometry >>
         /\ IF insert_raises(sindex, fid, geometry)
            THEN /\ sindex' = insert_stored(sindex, fid, geometry)
                 /\ pc' = "raised"
            ELSE /\ sindex' = insert(sindex, fid, geometry)
                 /\ pc' = "index"
    /\ ins' = ins + 1
    /\ candidates' = {}
    /\ UNCHANGED << inputs, extents, idx, processed_pairs, results, calls,
                    conflictVars, roadVars, classVars >>

\* sindex.query_candidates(fid)
CallQueryCandidates ==
    /\ pc \in {"index", "raised"}
    /\ \E fid \in Fids :
         /\ query' = << "query_candidates", fid >>
         /\ IF query_candidates_raises(sindex, fid)
            THEN candidates' = {} /\ pc' = "raised"
            ELSE candidates' = query_candidates(sindex, fid) /\ pc' = "index"
    /\ UNCHANGED << inputs, sindex, extents, ins, idx, processed_pairs, results,
                    calls, conflictVars, roadVars, classVars >>

\* sindex.query_by_extent(extent)
CallQueryByExtent ==
    /\ pc \in {"index", "raised"}
    /\ \E extent \in QueryExtents :
         /\ query' = << "query_by_extent", extent >>
         /\ IF query_by_extent_raises(sindex, extent)
            THEN candidates' = {} /\ pc' = "raised"
            ELSE candidates' = query_by_extent(sindex, extent) /\ pc' = "index"
    /\ UNCHANGED << inputs, sindex, extents, ins, idx, processed_pairs, results,
                    calls, conflictVars, roadVars, classVars >>

NextIndexAny == CallInsert \/ CallQueryCandidates \/ CallQueryByExtent

SpecIndexAny == InitIndexAny /\ [][NextIndexAny]_vars

\* C23: inserting into or querying a SpatialIndex whose cell size is 0 does
\* not raise.
C23_ZeroCellNoRaise == ZeroDivision(sindex) => pc # "raised"

\* with a cell size of 0 only the calls that return before the division come back
C23_ZeroCellReturns ==
    (ZeroDivision(sindex) /\ query # NoQuery /\ pc = "index") =>
        \/ /\ query[1] = "insert"
           /\ is_geometry_null(query[3]) \/ get_geometry_extent(query[3]) = NoExtent
        \/ /\ query[1] = "query_candidates"
           /\ query[2] \notin DOMAIN sindex.extents

\* ------------------------------------------------------- the cell-size policy
\* total_width + total_height over the features that have an extent
RECURSIVE ExtentSum(_)
ExtentSum(S) ==
    IF S = {} THEN 0
    ELSE LET i == CHOOSE j \in S : TRUE
             e == get_geometry_extent(features[i].geom)
         IN  (e[3] - e[1]) + (e[4] - e[2]) + ExtentSum(S \ {i})

\* avg = (sum of widths + sum of heights) / (2 * number of features with an extent)
AvgExtent == << ExtentSum(WithExtent), 2 * Cardinality(WithExtent) >>

\* max(avg, 10) of the policy, for at least one feature with an extent
FlooredAvg == IF FracGE(AvgExtent, <<10, 1>>) THEN AvgExtent ELSE <<10, 1>>

\* the overlap engine has built its index
OverlapIndexBuilt ==
    /\ impl \in {"find_pairwise_overlaps", "_find_overlaps"}
    /\ pc \in {"insert", "outer", "inner", "finish"}

\* _find_conflicts has built its index
ConflictIndexBuilt ==
    /\ impl = "_find_conflicts"
    /\ pc \in {"c_insert", "c_buffer", "c_outer", "c_inner", "c_finish"}

\* the three values the conflict cell size is the largest of
ConflictSizes ==
    { << 30, 1 >>, << 2 * buffer_distance * BlockSize, 1 >> }
      \cup (IF WithExtent = {} THEN {}
            ELSE { << 3 * AvgExtent[1], AvgExtent[2] >> })

\* C24: the overlap engine's cell size is 2 * max(avg, 10), the conflict
\* engine's is max(3 * max(avg, 10), 2 * buffer_distance); so the cell size is
\* at least 20 and at least 30, also without an indexed building and with a
\* buffer distance of zero or below.
C24_CellSize ==
    /\ OverlapIndexBuilt =>
         /\ FracEQ(sindex.cell_size, << 2 * FlooredAvg[1], FlooredAvg[2] >>)
         /\ FracGE(sindex.cell_size, <<20, 1>>)
    /\ ConflictIndexBuilt =>
         /\ \E s \in ConflictSizes : FracEQ(sindex.cell_size, s)
         /\ \A s \in ConflictSizes : FracGE(sindex.cell_size, s)
         /\ FracGE(sindex.cell_size, <<30, 1>>)

\* _find_conflicts has built its index without a building that has an extent
\* and with a buffer distance of zero or below
C24_Witness ==
    /\ ConflictIndexBuilt
    /\ WithExtent = {}
    /\ buffer_distance <= 0
    /\ sindex.cell_size = <<30, 1>>

\* the average dominates the floor in the overlap engine
C24_AvgDominates ==
    /\ OverlapIndexBuilt
    /\ ~ FracGE(<<10, 1>>, AvgExtent)

\* twice the buffer distance dominates in _find_conflicts
C24_BufferDominates ==
    /\ ConflictIndexBuilt
    /\ FracEQ(sindex.cell_size, << 2 * buffer_distance * BlockSize, 1 >>)
    /\ ~ FracGE(<<30, 1>>, sindex.cell_size)

\* ------------------------------------- check_conflicts and check_overlaps
\* an optional argument: << >> is None, << v >> is the value v
Supplied(v) == << v >>
Omitted == << >>

\* Python's "x or y" on an optional number: None and 0 are falsy
Or(x, y) == IF x = Omitted THEN y ELSE IF x[1] = 0 THEN y ELSE x[1]

\* "x; if x is None: x = y"
IfNone(x, y) == IF x = Omitted THEN y ELSE x[1]

BufferArgs == {Omitted} \cup {Supplied(k) : k \in BufferDistances}
AreaArgs == {Omitted} \cup {Supplied(a) : a \in MinAreas}
\* self.config.buffer_distance_m, in blocks, and self.config.min_overlap_area_m2
ConfigBuffers == {1, 2}
ConfigAreas == {1, BlockSize * BlockSize + 1}

\* query holds the call: << method, buffer_distance, min area argument,
\* config.buffer_distance_m, config.min_overlap_area_m2 >>
InitCheck ==
    /\ InitRoadIdle
    /\ InitClassIdle
    /\ impl = ""
    /\ \/ /\ pc = "check_conflicts"
          /\ features \in AscendingMaps(BuildingGeoms, 1)
          /\ roads \in AscendingMaps(RoadGeoms, 1)
          /\ query \in {"check_conflicts"} \X BufferArgs \X AreaArgs
                          \X ConfigBuffers \X ConfigAreas
       \/ /\ pc = "check_overlaps"
          /\ features \in AscendingMaps({PolyA, PolyB, PolyE}, 2)
          /\ roads = << >>
          /\ query \in {"check_overlaps"} \X {Omitted} \X AreaArgs
                          \X {0} \X ConfigAreas
    /\ min_overlap_area = 0
    /\ buffer_distance = 0
    /\ duplicate_threshold = <<9, 10>>
    /\ partial_threshold = <<5, 10>>
    /\ sindex = SpatialIndex(<<100, 1>>)
    /\ extents = << >>
    /\ ins = 1
    /\ idx = 1
    /\ candidates = {}
    /\ processed_pairs = {}
    /\ results = << >>
    /\ calls = << >>
    /\ buffered_roads = << >>
    /\ conflicts = << >>

\* check_conflicts up to the call of _find_conflicts; buffer_distance and
\* min_overlap_area take the values of effective_buffer and effective_min_area
CheckConflicts ==
    /\ pc = "check_conflicts"
    /\ buffer_distance' = Or(query[2], query[4])
    /\ min_overlap_area' = Or(query[3], query[5])
    /\ IF Len(features) = 0 \/ Len(roads) = 0
       THEN pc' = "done" /\ impl' = impl
       ELSE pc' = "c_start" /\ impl' = "_find_conflicts"
    /\ UNCHANGED << features, duplicate_threshold, partial_threshold, sindex, extents,
                    ins, idx, candidates, processed_pairs, results, calls, query,
                    roads, buffered_roads, conflicts, roadVars, classVars >>

\* check_overlaps up to the call of _find_overlaps
CheckOverlaps ==
    /\ pc = "check_overlaps"
    /\ min_overlap_area' = IfNone(query[3], query[5])
    /\ IF Len(features) = 0
       THEN pc' = "done" /\ impl' = impl
       ELSE pc' = "start" /\ impl' = "_find_overlaps"
    /\ UNCHANGED << features, duplicate_threshold, partial_threshold, sindex, extents,
                    ins, idx, candidates, processed_pairs, results, calls, query,
                    conflictVars, roadVars, classVars >>

NextCheck == CheckConflicts \/ CheckOverlaps \/ NextConflict \/ NextOverlap

SpecCheck == InitCheck /\ [][NextCheck]_vars

\* the method has computed its effective parameters
Checked == pc \notin {"check_conflicts", "check_overlaps"}

\* C25: check_conflicts uses a supplied buffer_distance and min_conflict_area,
\* also a supplied 0, and the config values only when they are omitted, as
\* check_overlaps does for min_overlap_area.
C25_Overrides ==
    Checked =>
        /\ query[1] = "check_conflicts" =>
             /\ buffer_distance = IfNone(query[2], query[4])
             /\ min_overlap_area = IfNone(query[3], query[5])
        /\ query[1] = "check_overlaps" =>
             min_overlap_area = IfNone(query[3], query[5])

\* what holds: check_overlaps uses every supplied value, check_conflicts every
\* supplied value except 0, for which it takes the config value
C25_OverridesExceptZero ==
    Checked =>
        /\ query[1] = "check_conflicts" =>
             /\ buffer_distance =
                  IF query[2] = Supplied(0) THEN query[4] ELSE IfNone(query[2], query[4])
             /\ min_overlap_area =
                  IF query[3] = Supplied(0) THEN query[5] ELSE IfNone(query[3], query[5])
        /\ query[1] = "check_overlaps" =>
             min_overlap_area = IfNone(query[3], query[5])

\* --------------------------------------- the index in direct use and in the engines
SpecIndexEngines ==
    (InitIndex \/ InitBatch \/ InitConflict)
        /\ [][NextIndex \/ NextOverlap \/ NextConflict]_vars

\* the positions of the engines from their first query on, and the position of
\* _find_conflicts between its inserts and its first query
QueryPhases == {"outer", "inner", "finish", "c_buffer", "c_outer", "c_inner", "c_finish"}

\* C26: the index is read-only once it is built: query_candidates and
\* query_by_extent leave grid, extents and geometries as they are, and the
\* engines do not insert from their first query on.
C26_ReadOnly ==
    [][ /\ (pc = "index" /\ query'[1] \in {"query_candidates", "query_by_extent"}) =>
              /\ sindex'.grid = sindex.grid
              /\ sindex'.extents = sindex.extents
              /\ sindex'.geometries = sindex.geometries
        /\ pc \in QueryPhases => sindex' = sindex ]_vars

\* query_by_extent has looked into cells the grid does not have
C26_Witness ==
    /\ pc = "index"
    /\ query # NoQuery
    /\ query[1] = "query_by_extent"
    /\ DOMAIN sindex.grid # {}
    /\ CellsOf(sindex.cell_size, query[2]) \ DOMAIN sindex.grid # {}

\* an engine has queried the index it built
C26_EngineQueried ==
    /\ pc \in {"inner", "c_inner"}
    /\ candidates # {}
    /\ DOMAIN sindex.grid # {}

\* ------------------------------------ _find_overlaps and find_pairwise_overlaps
\* the record of the features at the positions i < j of the input
RecordOf(i, j) ==
    LET intersection == Intersect(features[i].geom, features[j].geom)
        overlap_ratio == << Area(intersection),
                            Min2(Area(features[i].geom), Area(features[j].geom)) >>
    IN  OverlapResult(features[i].fid, features[j].fid, intersection, Area(intersection),
                      overlap_ratio,
                      classify_overlap(overlap_ratio, duplicate_threshold,
                                       partial_threshold))

\* the positions i < j of two usable features whose intersection is large enough
Overlapping ==
    {p \in (1..Len(features)) \X (1..Len(features)) :
        /\ p[1] < p[2]
        /\ ~BadFeature(features[p[1]].geom) /\ ~BadFeature(features[p[2]].geom)
        /\ Area(Intersect(features[p[1]].geom, features[p[2]].geom)) > 0
        /\ Area(Intersect(features[p[1]].geom, features[p[2]].geom)) >= min_overlap_area}

\* C27: on an input of at least two features _find_overlaps returns the
\* records find_pairwise_overlaps yields: both return, for the same input and
\* thresholds, one record per overlapping pair, with the same orientation,
\* area, ratio and type.
C27_SameRecords ==
    (Finished /\ Len(features) >= 2
       /\ impl \in {"_find_overlaps", "find_pairwise_overlaps"}) =>
        /\ Records = {RecordOf(p[1], p[2]) : p \in Overlapping}
        /\ Len(results) = Cardinality(Overlapping)

\* _find_overlaps has returned a record whose fid_a is the larger id
C27_Witness ==
    /\ Finished
    /\ impl = "_find_overlaps"
    /\ Len(features) >= 2
    /\ \E r \in Records : r.fid_a > r.fid_b

\* -------------------------------------------- disconnected roads and endpoints
\* C28: every road find_disconnected returns as disconnected has at least one
\* endpoint and at least one entry in the dangle list; a road with an empty
\* endpoint list is not returned.
C28_DisconnectedHaveEndpoints ==
    pc = "find_disconnected" =>
        \A k \in 1..Len(endpoints_by_road) :
            endpoints_by_road[k].fid \in SeqRange(disconnected) =>
                /\ Len(endpoints_by_road[k].pts) >= 1
                /\ \E n \in 1..Len(dangles) : dangles[n][1] = endpoints_by_road[k].fid

\* what holds: the roads returned as disconnected without an entry in the
\* dangle list are the roads with an empty endpoint list, and each of those is
\* returned
C28_EmptyRoadsReported ==
    pc = "find_disconnected" =>
        \A k \in 1..Len(endpoints_by_road) :
            Len(endpoints_by_road[k].pts) = 0 <=>
                /\ endpoints_by_road[k].fid \in SeqRange(disconnected)
                /\ \A n \in 1..Len(dangles) : dangles[n][1] # endpoints_by_road[k].fid

\* ------------------------------------------------ the index under re-insertion
\* the cells that hold the id outside the extent the index has for it
StaleCells(ix, id) ==
    {key \in DOMAIN ix.grid :
        /\ id \in SeqRange(ix.grid[key])
        /\ ~Spanned(ix.cell_size, ix.extents[id], key)}

\* C29: after any sequence of inserts, also of null geometries and of an id
\* already indexed with another extent, every id in a grid cell is a key of
\* extents, and every query by an extent that intersects extents[id] returns
\* id (the returned list is made from a set, so it holds no id twice).
C29_IndexInvariant ==
    /\ GridIds(sindex) \subseteq DOMAIN sindex.extents
    /\ DOMAIN sindex.extents = DOMAIN sindex.geometries
    /\ \A id \in DOMAIN sindex.extents : \A E \in QueryExtents :
         extents_intersect(E, sindex.extents[id]) => id \in query_by_extent(sindex, E)

\* an id was inserted again with another extent, a null geometry was inserted
\* for an indexed id, and a cell holds an id twice or outside its extent
C29_Witness ==
    /\ pc = "index"
    /\ query # NoQuery
    /\ query[1] = "insert"
    /\ is_geometry_null(query[3])
    /\ query[2] \in DOMAIN sindex.extents
    /\ \E id \in DOMAIN sindex.extents : StaleCells(sindex, id) # {}

\* ------------------------------------------------- the order of the candidates
\* the position of an id in the insertion order of the input mapping
Position(fid) == CHOOSE i \in 1..Len(features) : features[i].fid = fid

\* C30: the records of find_pairwise_overlaps, with their orientation, are
\* fixed by the input mapping and the thresholds, whatever the order in which
\* the candidates are listed; fid_a always comes before fid_b in the insertion
\* order of the mapping.
C30_OrderIndependent ==
    impl = "find_pairwise_overlaps" =>
        /\ \A r \in Records : Position(r.fid_a) < Position(r.fid_b)
        /\ Finished =>
             Records = RefOverlaps(GoodFeatures, min_overlap_area,
                                   duplicate_threshold, partial_threshold)

\* a finished run in which one feature had two candidates that both gave a
\* record, on a mapping whose insertion order is not the order of the ids
C30_Witness ==
    /\ Finished
    /\ impl = "find_pairwise_overlaps"
    /\ \E r1, r2 \in Records : r1 # r2 /\ r1.fid_a = r2.fid_a
    /\ \E r \in Records : r.fid_a > r.fid_b

====
